---------------------------- MODULE Spec2Model ----------------------------
(***************************************************************************)
(* EcoScore: the client-side emission model (mockCalculation) and the      *)
(* remote-first / local-fallback persistence path of services/api.ts       *)
(* (api.post, api.get, api.calculator.calculate,                           *)
(* api.calculator.getUserCalculations), in the most defensive revision of  *)
(* the service present in the source (src/unnamed/part_001).               *)
(*                                                                         *)
(* JavaScript values are records tagged by their typeof-like tag "t":      *)
(*   undefined, null, number (n), string (s), array (a), object (o).       *)
(* Unrounded emissions are IEEE 754 doubles, computed as JavaScript        *)
(* computes them; a reported emission is in tenths of a kg                 *)
(* (Math.round(x * 10) / 10), a percentage is a whole number.              *)
(***************************************************************************)
EXTENDS Integers, Sequences, FiniteSets, TLC

VARIABLES
    user,            \* authStore: the signed-in user (null or {id})
    token,           \* authStore: the bearer token (null or a string)
    isAuthenticated, \* authStore: the flag the pages pass to calculate
    storage,         \* localStorage slot 'calculations'
    clock,           \* Date.now(), in milliseconds
    calc,            \* the Calculator page's call of calculate
    hist,            \* the Dashboard's call of getUserCalculations
    calls,           \* the calls of calculate in flight side by side
    calculator,      \* the Calculator component: its state and its toast
    dashboard,       \* the Dashboard component: its state and its toast
    location         \* the router: the path shown

\* what the pages and the calls made side by side add to the service
pages == <<calls, calculator, dashboard, location>>

vars == <<user, token, isAuthenticated, storage, clock, calc, hist, pages>>

----------------------------------------------------------------------------
(* Bounds of the model *)

MaxClock == 1        \* Date.now() ranges over 0..MaxClock
MaxLog == 2          \* calculate is not called on a longer array
MaxHistory == 2      \* entries of the arrays getUserCalculations is tried on
MaxCalls == 2        \* calls of calculate in flight side by side

----------------------------------------------------------------------------
(* JavaScript values *)

Undefined == [t |-> "undefined"]
Null == [t |-> "null"]
Num(n) == [t |-> "number", n |-> n]
Str(s) == [t |-> "string", s |-> s]
Arr(a) == [t |-> "array", a |-> a]
Obj(o) == [t |-> "object", o |-> o]

\* new Date(ms).toISOString(): the string that new Date(str).getTime() reads
\* back as ms
IsoString(ms) == [t |-> "string", iso |-> ms]

\* !v
Falsy(v) ==
    \/ v.t \in {"undefined", "null"}
    \/ v.t = "string" /\ "s" \in DOMAIN v /\ v.s = ""
    \/ v.t = "number" /\ ("nan" \in DOMAIN v \/ v.n = 0)

\* v != null (loose inequality: neither null nor undefined)
NotNullish(v) == v.t \notin {"undefined", "null"}

\* obj.key of a value that is known to be truthy
Get(v, key) ==
    IF v.t = "object" /\ key \in DOMAIN v.o THEN v.o[key] ELSE Undefined

\* Array.isArray(v)
IsArray(v) == v.t = "array"

\* typeof v === 'object'
TypeofObject(v) == v.t \in {"object", "array", "null"}

\* key in v, for a string key that is no array index
HasKey(v, key) == v.t = "object" /\ key \in DOMAIN v.o


\* Number("...") of the strings a form field of the model can hold; any other
\* string is not numeric
Numerals ==
    ("0" :> 0) @@ ("1" :> 1) @@ ("2" :> 2) @@ ("3" :> 3) @@ ("4" :> 4) @@
    ("5" :> 5) @@ ("7" :> 7) @@ ("9" :> 9) @@ ("10" :> 10) @@ ("12" :> 12) @@
    ("20" :> 20) @@ ("40" :> 40) @@ ("100" :> 100) @@ ("-5" :> (0 - 5))

\* the strings with a fraction: Number("160.934") is 160934 / 1000
Decimals ==
    ("160.934" :> <<160934, 1000>>) @@ ("16.0934" :> <<160934, 10000>>) @@
    ("8.0467" :> <<80467, 10000>>) @@ ("1.60934" :> <<160934, 100000>>) @@
    ("0.5" :> <<5, 10>>) @@ ("-0.5" :> <<0 - 5, 10>>)

\* a number with a fraction: n / per
Frac(n, per) == [t |-> "number", n |-> n, per |-> per]

NaN == [t |-> "number", nan |-> TRUE]

\* isNaN(x) of a number
IsNaN(x) == "nan" \in DOMAIN x

\* Number(v)
Number(v) ==
    CASE v.t = "number" -> v
      [] v.t = "null" -> Num(0)
      [] v.t = "string" /\ "s" \in DOMAIN v /\ v.s = "" -> Num(0)
      [] v.t = "string" /\ "s" \in DOMAIN v /\ v.s \in DOMAIN Numerals ->
            Num(Numerals[v.s])
      [] v.t = "string" /\ "s" \in DOMAIN v /\ v.s \in DOMAIN Decimals ->
            Frac(Decimals[v.s][1], Decimals[v.s][2])
      [] OTHER -> NaN

----------------------------------------------------------------------------
(* IEEE 754 doubles: the numbers of JavaScript *)

\* Natural numbers of any size, as sequences of limbs, least significant
\* first, with no zero limb at the top
LimbBits == 14
Limb == 2 ^ LimbBits

RECURSIVE BigOf(_)
BigOf(n) == IF n = 0 THEN <<>> ELSE <<n % Limb>> \o BigOf(n \div Limb)

RECURSIVE IntOf(_)
IntOf(a) == IF a = <<>> THEN 0 ELSE Head(a) + Limb * IntOf(Tail(a))

Highest(S) == CHOOSE i \in S : \A j \in S : j <= i

Lowest(S) == CHOOSE i \in S : \A j \in S : i <= j

\* a without the zero limbs at its top
Trim(a) ==
    LET set == {i \in DOMAIN a : a[i] # 0}
    IN  IF set = {} THEN <<>> ELSE SubSeq(a, 1, Highest(set))

\* a with zero limbs at its top, n limbs in all
Pad(a, n) == [i \in 1..n |-> IF i <= Len(a) THEN a[i] ELSE 0]

\* a + b: a carry enters limb i when a limb below it overflows and every
\* limb between is full
BigAdd(a, b) ==
    IF a = <<>> THEN b
    ELSE IF b = <<>> THEN a
    ELSE
    LET n == (IF Len(a) < Len(b) THEN Len(b) ELSE Len(a)) + 1
        s == [i \in 1..n |-> Pad(a, n)[i] + Pad(b, n)[i]]
        carry(i) == \E j \in 1..(i - 1) :
                        /\ s[j] >= Limb
                        /\ \A k \in (j + 1)..(i - 1) : s[k] = Limb - 1
    IN  Trim([i \in 1..n |-> (s[i] + (IF carry(i) THEN 1 ELSE 0)) % Limb])

\* a - b for a >= b: limb i is borrowed from when a limb below it falls
\* short and every limb between is zero
BigSub(a, b) ==
    IF b = <<>> THEN a
    ELSE
    LET n == Len(a)
        d == [i \in 1..n |-> a[i] - Pad(b, n)[i]]
        borrow(i) == \E j \in 1..(i - 1) :
                         /\ d[j] < 0
                         /\ \A k \in (j + 1)..(i - 1) : d[k] = 0
    IN  Trim([i \in 1..n |-> (d[i] - (IF borrow(i) THEN 1 ELSE 0)) % Limb])

\* a < b
BigLess(a, b) ==
    IF Len(a) # Len(b) THEN Len(a) < Len(b)
    ELSE LET differ == {i \in DOMAIN a : a[i] # b[i]}
         IN  differ # {} /\ a[Highest(differ)] < b[Highest(differ)]

\* a * k for a limb k
BigMulLimb(a, k) ==
    IF k = 0 \/ a = <<>> THEN <<>>
    ELSE BigAdd([i \in DOMAIN a |-> (a[i] * k) % Limb],
                <<0>> \o [i \in DOMAIN a |-> (a[i] * k) \div Limb])

RECURSIVE BigMul(_, _)
BigMul(a, b) ==
    IF b = <<>> \/ a = <<>> THEN <<>>
    ELSE LET rest == BigMul(a, Tail(b))
         IN  BigAdd(BigMulLimb(a, Head(b)),
                    IF rest = <<>> THEN <<>> ELSE <<0>> \o rest)

\* the number of bits of a
BitLen(a) ==
    IF a = <<>> THEN 0
    ELSE LimbBits * (Len(a) - 1)
             + Lowest({k \in 1..LimbBits : a[Len(a)] < 2 ^ k})

\* a * 2^n
BigShl(a, n) ==
    IF a = <<>> THEN <<>>
    ELSE [i \in 1..(n \div LimbBits) |-> 0] \o BigMulLimb(a, 2 ^ (n % LimbBits))

\* floor(a / 2^n)
BigShr(a, n) ==
    LET limbs == n \div LimbBits
        bits == n % LimbBits
        high == IF limbs >= Len(a) THEN <<>> ELSE SubSeq(a, limbs + 1, Len(a))
    IN  Trim([i \in DOMAIN high |->
                 high[i] \div (2 ^ bits)
                     + (IF i < Len(high) THEN high[i + 1] % (2 ^ bits) ELSE 0)
                           * (2 ^ (LimbBits - bits))])

\* a mod 2^n is not zero
LowBitsSet(a, n) == BigShl(BigShr(a, n), n) # a

IsOdd(a) == a # <<>> /\ Head(a) % 2 = 1

\* the largest limb g with g * b <= a, where a < b * Limb and the top limb
\* of b is at least Limb / 2: the two top limbs of a by the top limb of b
\* overestimate it by two at most
Digit(a, b) ==
    LET n == Len(b)
        top == Pad(a, n + 1)[n + 1] * Limb + Pad(a, n + 1)[n]
        guess == IF top \div b[n] >= Limb THEN Limb - 1 ELSE top \div b[n]
    IN  Highest({g \in {0, guess - 2, guess - 1, guess} :
                    g >= 0 /\ ~BigLess(a, BigMulLimb(b, g))})

\* floor(a / b) and a mod b limb by limb from the top: q holds the limbs
\* found so far, k + 1 limbs are still to find, a < b * Limb^(k+1) and the
\* top limb of b is at least Limb / 2
RECURSIVE DivLimbs(_, _, _, _)
DivLimbs(a, b, k, q) ==
    IF k < 0 \/ a = <<>> THEN [q |-> [i \in 1..(k + 1) |-> 0] \o q, r |-> a]
    ELSE LET shifted == [i \in 1..k |-> 0] \o b
             g == Digit(a, shifted)
         IN  DivLimbs(BigSub(a, BigMulLimb(shifted, g)), b, k - 1, <<g>> \o q)

\* A double that is no NaN, no infinity and not negative is m * 2^e with m
\* of at most 53 bits; it is kept with m odd, or as zero.
Precision == 53

\* the number of zero bits at the low end of a, for a > 0
LowZeros(a) ==
    LET limb == Lowest({i \in DOMAIN a : a[i] # 0})
    IN  LimbBits * (limb - 1)
            + Highest({k \in 0..(LimbBits - 1) : a[limb] % (2 ^ k) = 0})

OddPart(m, e) ==
    IF m = <<>> THEN [m |-> <<>>, e |-> 0]
    ELSE [m |-> BigShr(m, LowZeros(m)), e |-> e + LowZeros(m)]

\* The division of limbs and the operations on doubles are the cases of one
\* recursive operator, Arithmetic, which is defined below the emission
\* model; each has its own name here.
RECURSIVE Arithmetic(_, _, _, _)

\* floor(a / b) and a mod b for b > 0
BigDivMod(a, b) == Arithmetic("BigDivMod", a, b, FALSE)

\* the double nearest to m * 2^e (plus a little more when sticky), ties to
\* the even mantissa
RoundToDouble(m, e, sticky) == Arithmetic("RoundToDouble", m, e, sticky)

\* the double of a natural number below 2^53
DoubleOf(n) == Arithmetic("DoubleOf", n, 0, FALSE)

\* x * y
DoubleMul(x, y) == Arithmetic("DoubleMul", x, y, FALSE)

\* x + y
DoubleAdd(x, y) == Arithmetic("DoubleAdd", x, y, FALSE)

\* x / y for y > 0
DoubleDiv(x, y) == Arithmetic("DoubleDiv", x, y, FALSE)

\* Math.round(x): floor(x + 0.5)
MathRound(x) == Arithmetic("MathRound", x, 0, FALSE)

\* x < y
DoubleLess(x, y) == Arithmetic("DoubleLess", x, y, FALSE)

----------------------------------------------------------------------------
(* The Emission Model: mockCalculation *)

\* Emission factors, in hundredths of a kg CO2e per unit
FactorCarSmall == 15
FactorCarMedium == 20
FactorCarLarge == 30
FactorBus == 10
FactorTrain == 5
FactorPlaneEconomy == 25
FactorPlaneBusiness == 50
FactorPlaneFirst == 75
FactorElectricity == 50
FactorWaste == 1000
FactorHomeCooked == 50
FactorFastFood == 120
FactorRestaurant == 200

\* the literal of a factor: the double nearest to f / 100
Factor(f) == DoubleDiv(DoubleOf(f), DoubleOf(100))

\* One mile is 1.60934 km: MileScale / KmScale
KmScale == 100 * 1000
MileScale == 160934

\* a nautical mile, 1.852 km
NauticalMileToKm == DoubleDiv(DoubleOf(185200), DoubleOf(KmScale))

\* the literal 1.60934
MilesToKm == DoubleDiv(DoubleOf(MileScale), DoubleOf(KmScale))

\* the double of a number that Number(...) gave and that is above 0
ToDouble(x) ==
    IF "per" \in DOMAIN x THEN DoubleDiv(DoubleOf(x.n), DoubleOf(x.per))
    ELSE DoubleOf(x.n)

Zero == DoubleOf(0)

\* the guard of every reduce callback:
\* !item.f || isNaN(Number(item.f)) || Number(item.f) <= 0
SkipItem(item, field) ==
    LET v == Get(item, field)
    IN  \/ Falsy(v)
        \/ IsNaN(Number(v))
        \/ Number(v).n <= 0

\* every car taken for a large one
TransportFactorLargeCar(item) ==
    LET type == Get(item, "transportType")
        class == Get(item, "travelClass")
    IN  CASE type = Str("car") -> FactorCarLarge
          [] type = Str("bus") -> FactorBus
          [] type = Str("train") -> FactorTrain
          [] type = Str("plane") ->
               IF class = Str("economy") THEN FactorPlaneEconomy
               ELSE IF class = Str("business") THEN FactorPlaneBusiness
               ELSE FactorPlaneFirst
          [] OTHER -> 0

\* the switch on item.transportType
TransportFactor(item) ==
    LET type == Get(item, "transportType")
        vehicle == Get(item, "vehicleType")
        class == Get(item, "travelClass")
    IN  CASE type = Str("car") ->
               IF vehicle = Str("small") THEN FactorCarSmall
               ELSE IF vehicle = Str("medium") THEN FactorCarMedium
               ELSE FactorCarLarge
          [] type = Str("bus") -> FactorBus
          [] type = Str("train") -> FactorTrain
          [] type = Str("plane") ->
               IF class = Str("economy") THEN FactorPlaneEconomy
               ELSE IF class = Str("business") THEN FactorPlaneBusiness
               ELSE FactorPlaneFirst
          [] OTHER -> 0

\* the factors of fast food and of a restaurant taken for each other
FoodFactorSwapped(item) ==
    LET type == Get(item, "eateryType")
    IN  CASE type = Str("homeCooked") -> FactorHomeCooked
          [] type = Str("fastFood") -> FactorRestaurant
          [] type = Str("restaurant") -> FactorFastFood
          [] OTHER -> 0

\* the switch on item.eateryType
FoodFactor(item) ==
    LET type == Get(item, "eateryType")
    IN  CASE type = Str("homeCooked") -> FactorHomeCooked
          [] type = Str("fastFood") -> FactorFastFood
          [] type = Str("restaurant") -> FactorRestaurant
          [] OTHER -> 0

TransportItemEmission(item) ==
    IF SkipItem(item, "distance") THEN Zero
    ELSE LET number == ToDouble(Number(Get(item, "distance")))
             distance ==
                 IF Get(item, "distanceUnit") = Str("miles")
                 THEN DoubleMul(number, MilesToKm)
                 ELSE number
         IN  DoubleMul(distance, Factor(TransportFactor(item)))

ElectricityItemEmission(item) ==
    IF SkipItem(item, "consumption") THEN Zero
    ELSE DoubleMul(ToDouble(Number(Get(item, "consumption"))),
                   Factor(FactorElectricity))

WasteItemEmission(item) ==
    IF SkipItem(item, "garbageBags") THEN Zero
    ELSE DoubleMul(ToDouble(Number(Get(item, "garbageBags"))),
                   Factor(FactorWaste))

FoodItemEmission(item) ==
    IF SkipItem(item, "moneySpent") THEN Zero
    ELSE DoubleMul(ToDouble(Number(Get(item, "moneySpent"))),
                   Factor(FoodFactor(item)))

ItemEmission(category, item) ==
    CASE category = "transportData" -> TransportItemEmission(item)
      [] category = "electricityData" -> ElectricityItemEmission(item)
      [] category = "wasteData" -> WasteItemEmission(item)
      [] category = "foodData" -> FoodItemEmission(item)

\* items.reduce((total, item) => total + emission(item), 0)
RECURSIVE Reduce(_, _)
Reduce(category, items) ==
    IF items = <<>> THEN Zero
    ELSE DoubleAdd(Reduce(category, SubSeq(items, 1, Len(items) - 1)),
                   ItemEmission(category, items[Len(items)]))

CategoryEmissions(formData, category) ==
    Reduce(category, Get(formData, category).a)

\* the share in thousandths
PerMille(value, total) ==
    IF total = Zero THEN 0
    ELSE MathRound(DoubleMul(DoubleDiv(value, total), DoubleOf(1000)))

\* a percentage that takes nothing for the whole
PercentageOfNothing(value, total) ==
    IF total = Zero THEN 100
    ELSE MathRound(DoubleMul(DoubleDiv(value, total), DoubleOf(100)))

\* total === 0 ? 0 : Math.round((value / total) * 100)
getPercentage(value, total) ==
    IF total = Zero THEN 0
    ELSE MathRound(DoubleMul(DoubleDiv(value, total), DoubleOf(100)))

\* Math.round(x * 10) / 10, in tenths: the number reported is the double
\* nearest to RoundTenths(x) / 10
RoundTenths(x) == MathRound(DoubleMul(x, DoubleOf(10)))

BreakdownEntry(value, total) ==
    Obj([emissions |-> Num(RoundTenths(value)),
         percentage |-> Num(getPercentage(value, total))])

Categories == {"transportData", "electricityData", "wasteData", "foodData"}

\* a line item on which item.field raises a TypeError
ThrowingItem(item) == item.t \in {"null", "undefined"}

MockThrows(formData) ==
    \E c \in Categories :
        \E i \in DOMAIN Get(formData, c).a : ThrowingItem(Get(formData, c).a[i])
\* the field of a line item that holds its quantity
QuantityOf ==
    [transportData |-> "distance", electricityData |-> "consumption",
     wasteData |-> "garbageBags", foodData |-> "moneySpent"]

\* a callback that counts an item that should be skipped as one unit
AccumulateUnskipped(category, total, item) ==
    IF SkipItem(item, QuantityOf[category]) THEN DoubleAdd(total, DoubleOf(1))
    ELSE DoubleAdd(total, ItemEmission(category, item))

\* the reduce callbacks as services/api.ts writes them: `return total` for
\* an item that is skipped, `return total + (quantity * factor)` otherwise
Accumulate(category, total, item) ==
    IF SkipItem(item, QuantityOf[category]) THEN total
    ELSE DoubleAdd(total, ItemEmission(category, item))

\* items.reduce(callback, 0), from the first item to the last
RECURSIVE ReduceFrom(_, _, _)
ReduceFrom(category, items, total) ==
    IF items = <<>> THEN total
    ELSE ReduceFrom(category, Tail(items),
                    Accumulate(category, total, Head(items)))

\* mockCalculation of services/api.ts: the four reductions, their total,
\* and the object literal returned
mockCalculationApi(formData) ==
    LET Returned(transport, electricity, waste, food, total) ==
            Obj([total |-> Num(RoundTenths(total)),
                 breakdown |-> Obj([
                     transport |-> BreakdownEntry(transport, total),
                     electricity |-> BreakdownEntry(electricity, total),
                     waste |-> BreakdownEntry(waste, total),
                     food |-> BreakdownEntry(food, total)])])
        Summed(e) ==
            Returned(e[1], e[2], e[3], e[4],
                     DoubleAdd(DoubleAdd(DoubleAdd(e[1], e[2]), e[3]), e[4]))
    IN  CHOOSE result \in
            {Summed(e) : e \in
                {<<ReduceFrom("transportData",
                              Get(formData, "transportData").a, Zero),
                   ReduceFrom("electricityData",
                              Get(formData, "electricityData").a, Zero),
                   ReduceFrom("wasteData", Get(formData, "wasteData").a, Zero),
                   ReduceFrom("foodData", Get(formData, "foodData").a, Zero)>>}} :
                TRUE

\* the emissions of the four categories first, then their total and the
\* object returned
mockCalculation(formData) ==
    LET Report(emissions, total) ==
            Obj([total |-> Num(RoundTenths(total)),
                 breakdown |-> Obj([
                     transport |->
                         BreakdownEntry(emissions["transportData"], total),
                     electricity |->
                         BreakdownEntry(emissions["electricityData"], total),
                     waste |-> BreakdownEntry(emissions["wasteData"], total),
                     food |-> BreakdownEntry(emissions["foodData"], total)])])
        Totalled(emissions) ==
            Report(emissions,
                   DoubleAdd(DoubleAdd(DoubleAdd(emissions["transportData"],
                                                 emissions["electricityData"]),
                                       emissions["wasteData"]),
                             emissions["foodData"]))
    IN  CHOOSE result \in
            {Totalled(emissions) : emissions \in
                {[transportData |-> CategoryEmissions(formData, "transportData"),
                  electricityData |->
                      CategoryEmissions(formData, "electricityData"),
                  wasteData |-> CategoryEmissions(formData, "wasteData"),
                  foodData |-> CategoryEmissions(formData, "foodData")]}} : TRUE

----------------------------------------------------------------------------
(* The arithmetic of the doubles, case by case *)

\* x, y and z are the operands of the operation op; mockCalculation is a case
\* as well, for the table of its results
Arithmetic(op, x, y, z) ==
    CASE op = "BigDivMod" ->
            \* x by y, after scaling both so that the top limb of y is at
            \* least Limb / 2
            LET scale == LimbBits * Len(y) - BitLen(y)
                d == DivLimbs(BigShl(x, scale), BigShl(y, scale),
                              Len(BigShl(x, scale)) - Len(y), <<>>)
            IN  [q |-> Trim(d.q), r |-> BigShr(d.r, scale)]
      [] op = "RoundToDouble" ->
            \* x is the mantissa, y the exponent, z says sticky
            LET excess == BitLen(x) - Precision
            IN  IF x = <<>> \/ excess <= 0 THEN OddPart(x, y)
                ELSE LET q == BigShr(x, excess)
                         aboveHalf == LowBitsSet(x, excess - 1) \/ z
                         half == IsOdd(BigShr(x, excess - 1))
                         up == half /\ (aboveHalf \/ IsOdd(q))
                     IN  OddPart(IF up THEN BigAdd(q, <<1>>) ELSE q,
                                 y + excess)
      [] op = "DoubleOf" -> OddPart(BigOf(x), 0)
      [] op = "DoubleMul" ->
            IF x.m = <<>> THEN x
            ELSE IF y.m = <<>> THEN y
            ELSE RoundToDouble(BigMul(x.m, y.m), x.e + y.e, FALSE)
      [] op = "DoubleAdd" ->
            IF x.m = <<>> THEN y
            ELSE IF y.m = <<>> THEN x
            ELSE LET e == IF x.e < y.e THEN x.e ELSE y.e
                 IN  RoundToDouble(BigAdd(BigShl(x.m, x.e - e),
                                          BigShl(y.m, y.e - e)),
                                   e, FALSE)
      [] op = "DoubleDiv" ->
            \* the quotient of the mantissas to 55 bits or more, the
            \* remainder sticky
            IF x.m = <<>> THEN x
            ELSE LET room == Precision + 2 + BitLen(y.m) - BitLen(x.m)
                     shift == IF room < 0 THEN 0 ELSE room
                     d == BigDivMod(BigShl(x.m, shift), y.m)
                 IN  RoundToDouble(d.q, x.e - y.e - shift, d.r # <<>>)
      [] op = "MathRound" ->
            IF x.m = <<>> THEN 0
            ELSE IF x.e >= 0 THEN IntOf(BigShl(x.m, x.e))
            ELSE IntOf(BigShr(BigAdd(x.m, BigShl(<<1>>, (0 - x.e) - 1)),
                              0 - x.e))
      [] op = "DoubleLess" ->
            LET e == IF x.e < y.e THEN x.e ELSE y.e
            IN  BigLess(BigShl(x.m, x.e - e), BigShl(y.m, y.e - e))
      [] op = "mockCalculation" -> mockCalculation(x)
      [] op = "mockCalculationApi" -> mockCalculationApi(x)

----------------------------------------------------------------------------
(* The forms mockCalculation is applied to *)

TransportItem(type, vehicle, distance, unit) ==
    Obj([transportType |-> Str(type), vehicleType |-> Str(vehicle),
         distance |-> Str(distance), distanceUnit |-> Str(unit)])

PlaneItem(class, distance, unit) ==
    Obj([transportType |-> Str("plane"), travelClass |-> Str(class),
         distance |-> Str(distance), distanceUnit |-> Str(unit)])

ElectricityItem(consumption) == Obj([consumption |-> Str(consumption)])

WasteItem(garbageBags) == Obj([garbageBags |-> Str(garbageBags)])

FoodItem(moneySpent, eateryType) ==
    Obj([moneySpent |-> Str(moneySpent), eateryType |-> Str(eateryType)])

CalculatorData(transport, electricity, waste, food) ==
    Obj([transportData |-> Arr(transport), electricityData |-> Arr(electricity),
         wasteData |-> Arr(waste), foodData |-> Arr(food)])

\* one medium car, 100 km
InputCar ==
    CalculatorData(<<TransportItem("car", "medium", "100", "km")>>,
                   <<ElectricityItem("")>>, <<WasteItem("")>>,
                   <<FoodItem("", "homeCooked")>>)

\* an entry in every category
InputMixed ==
    CalculatorData(<<PlaneItem("economy", "10", "miles"),
                     TransportItem("car", "small", "0", "km")>>,
                   <<ElectricityItem("4")>>, <<WasteItem("1")>>,
                   <<FoodItem("20", "fastFood")>>)

\* nothing that counts
InputNothing ==
    CalculatorData(<<TransportItem("car", "medium", "abc", "km")>>,
                   <<ElectricityItem("-5")>>, <<WasteItem("0")>>,
                   <<FoodItem("", "homeCooked")>>)

\* what the Calculator page submits
Inputs == {InputCar, InputMixed}

\* the fields of the four kinds of line item are missing
EmptyItem == Obj([x \in {} |-> Undefined])

\* the quantity of every kind of line item is there and does not count
InvalidItem ==
    Obj([distance |-> Str("abc"), consumption |-> Str("-5"),
         garbageBags |-> Str("0"), moneySpent |-> Str("")])

\* line items that are skipped, or that are no objects at all
MalformedItems == {EmptyItem, InvalidItem, Null}

\* items.splice(i - 1, 0, item) on the category c of formData
InsertItem(formData, c, i, item) ==
    LET items == Get(formData, c).a
    IN  Obj([formData.o EXCEPT ![c] =
                Arr(SubSeq(items, 1, i - 1) \o <<item>>
                        \o SubSeq(items, i, Len(items)))])

\* the forms with one malformed line item more than a form of Inputs
InputsWithMalformed ==
    UNION {{InsertItem(f, c, i, m) :
               i \in 1..(Len(Get(f, c).a) + 1), m \in MalformedItems} :
           f \in Inputs, c \in Categories}

\* every line item lacks its quantity
InputEmpty ==
    CalculatorData(<<EmptyItem>>, <<EmptyItem, EmptyItem>>, <<EmptyItem>>,
                   <<EmptyItem>>)

\* one small car, 9 km
InputSmallCar ==
    CalculatorData(<<TransportItem("car", "small", "9", "km")>>,
                   <<>>, <<>>, <<>>)

\* three categories of 1 kg each
InputThirds ==
    CalculatorData(<<TransportItem("car", "medium", "5", "km")>>,
                   <<ElectricityItem("2")>>, <<>>,
                   <<FoodItem("2", "homeCooked")>>)

\* the factors InputCar and InputMixed do not use, several items a category
InputFleet ==
    CalculatorData(<<TransportItem("car", "small", "9", "km"),
                     TransportItem("car", "large", "7", "km"),
                     TransportItem("bus", "", "12", "km"),
                     TransportItem("train", "", "40", "km"),
                     PlaneItem("business", "3", "miles"),
                     PlaneItem("first", "2", "km")>>,
                   <<ElectricityItem("3"), ElectricityItem("0.5")>>,
                   <<WasteItem("2"), WasteItem("1")>>,
                   <<FoodItem("10", "homeCooked"), FoodItem("7", "restaurant")>>)

\* a distance in miles, and the same distance in km
MilesAndKm ==
    {<<"1", "1.60934">>, <<"5", "8.0467">>, <<"10", "16.0934">>,
     <<"100", "160.934">>}

InputFlight(distance, unit) ==
    CalculatorData(<<PlaneItem("economy", distance, unit)>>, <<>>, <<>>, <<>>)

InputDrive(distance, unit) ==
    CalculatorData(<<TransportItem("car", "small", distance, unit)>>,
                   <<>>, <<>>, <<>>)

InputsInMiles ==
    {InputFlight(d[1], "miles") : d \in MilesAndKm}
        \cup {InputDrive(d[1], "miles") : d \in MilesAndKm}

InputsInKm ==
    {InputFlight(d[i], "km") : d \in MilesAndKm, i \in {1, 2}}
        \cup {InputDrive(d[i], "km") : d \in MilesAndKm, i \in {1, 2}}

\* the forms mockCalculation is applied to on its own
ModelInputs ==
    Inputs \cup InputsWithMalformed \cup InputsInMiles \cup InputsInKm
        \cup {InputNothing, InputEmpty, InputSmallCar, InputThirds, InputFleet}

\* mockCalculation(formData) for every form of the model, computed once:
\* what it returns, or that it throws
mockCalculations ==
    [formData \in ModelInputs |->
        IF MockThrows(formData) THEN [threw |-> TRUE, result |-> Undefined]
        ELSE [threw |-> FALSE,
                  result |-> Arithmetic("mockCalculation", formData, 0, 0)]]

\* the revisions of mockCalculation in the source
Revisions == {"api.ts", "part_001", "part_002"}

\* the first line a revision writes with console.log; services/api.ts
\* writes none
ConsoleLine ==
    [revision \in Revisions |->
        CASE revision = "part_001" -> "Beginning mock calculation with data:"
          [] revision = "part_002" -> "Beginning calculation with data:"
          [] OTHER -> ""]

\* mockCalculation(formData) of every revision for every form of the model.
\* The statements of part_002 are those of part_001 but for two console.log
\* lines, and share their definitions.
mockCalculationsOf ==
    [revision \in Revisions |->
        IF revision = "api.ts"
        THEN [formData \in ModelInputs |->
                 IF MockThrows(formData)
                 THEN [threw |-> TRUE, result |-> Undefined]
                 ELSE [threw |-> FALSE,
                       result |->
                           Arithmetic("mockCalculationApi", formData, 0, 0)]]
        ELSE mockCalculations]

----------------------------------------------------------------------------
(* localStorage: the slot 'calculations' *)

\* The slot is absent, or holds a string: the empty string, a text that
\* JSON.parse rejects, or the JSON text of a value.
SlotAbsent == [t |-> "absent"]
SlotEmpty == [t |-> "empty"]
SlotGarbage == [t |-> "garbage"]
SlotJson(v) == [t |-> "json", v |-> v]

\* JSON.parse(JSON.stringify(v)): a field whose value is undefined is left
\* out, NaN and an undefined array element become null
RECURSIVE JsonRoundTrip(_)
JsonRoundTrip(v) ==
    CASE v.t = "array" ->
            Arr([i \in DOMAIN v.a |->
                    IF v.a[i].t = "undefined" THEN Null
                    ELSE JsonRoundTrip(v.a[i])])
      [] v.t = "object" ->
            Obj([k \in {f \in DOMAIN v.o : v.o[f].t # "undefined"} |->
                    JsonRoundTrip(v.o[k])])
      [] v.t = "number" /\ IsNaN(v) -> Null
      [] OTHER -> v

\* localStorage.getItem('calculations') || '[]', then JSON.parse in a try:
\* the parsed value, or thrown when the text is no JSON
ParseSlot(slot) ==
    CASE slot.t \in {"absent", "empty"} -> [thrown |-> FALSE, v |-> Arr(<<>>)]
      [] slot.t = "garbage" -> [thrown |-> TRUE, v |-> Undefined]
      [] OTHER -> [thrown |-> FALSE, v |-> slot.v]

\* a reading of the log that keeps a parsed value that is no array as the
\* first entry instead of starting afresh
KeepParsedValue(slot) ==
    LET parsed == ParseSlot(slot)
    IN  IF parsed.thrown THEN <<>>
        ELSE IF IsArray(parsed.v) THEN parsed.v.a ELSE <<parsed.v>>

\* calculate's reading of the log: a slot that does not parse or holds no
\* array counts as the empty array
ExistingCalculations(slot) ==
    LET parsed == ParseSlot(slot)
    IN  IF parsed.thrown \/ ~IsArray(parsed.v) THEN <<>> ELSE parsed.v.a

\* what calculate reports with console.error while it reads the log
SlotDiagnostic(slot) ==
    LET parsed == ParseSlot(slot)
    IN  IF parsed.thrown THEN "Error parsing calculations from localStorage"
        ELSE IF ~IsArray(parsed.v)
        THEN "Invalid calculations format in localStorage"
        ELSE ""

\* a write that keeps the newest record alone
StoredSlotNewest(calculations) ==
    SlotJson(JsonRoundTrip(Arr(<<calculations[Len(calculations)]>>)))

\* localStorage.setItem('calculations', JSON.stringify(calculations))
StoredSlot(calculations) == SlotJson(JsonRoundTrip(Arr(calculations)))

----------------------------------------------------------------------------
(* The network: fetch, api.post and api.get *)

FREE_USER_TOKEN == Str("free-user-token")

\* what api.post and api.get return when the request fails
Placeholder == Obj([message |-> Str("Using Supabase as fallback")])

\* The ways a fetch can end: it rejects (the endpoint is unreachable), it
\* answers with a status that is not 2xx, it answers 2xx with a body that is
\* no JSON, or it answers 2xx with the JSON value body.
NetworkError == [kind |-> "networkError", body |-> Undefined]
HttpError == [kind |-> "httpError", body |-> Undefined]
BadJson == [kind |-> "badJson", body |-> Undefined]
Ok(body) == [kind |-> "ok", body |-> body]
NoOutcome == [kind |-> "none", body |-> Undefined]

\* the free-user token whenever the store holds no token
TokenOrFree(requireAuth) ==
    IF ~Falsy(token) THEN token ELSE FREE_USER_TOKEN

\* useAuthStore.getState().token || (requireAuth ? null : FREE_USER_TOKEN)
TokenFor(requireAuth) ==
    IF ~Falsy(token) THEN token
    ELSE IF requireAuth THEN Null ELSE FREE_USER_TOKEN

\* if (requireAuth && !token) throw new Error("Authentication required")
AuthenticationRequired(requireAuth) ==
    requireAuth /\ Falsy(TokenFor(requireAuth))

\* what api.post / api.get resolve to once the fetch has ended: the parsed
\* body of a 2xx answer, the placeholder after any failure of the request
ApiResult(outcome) ==
    IF outcome.kind = "ok" THEN outcome.body ELSE Placeholder

----------------------------------------------------------------------------
(* api.calculator.calculate *)

\* Array.isArray(formData.x) ? formData.x : []
validFormData(formData) ==
    Obj([c \in Categories |->
            IF IsArray(Get(formData, c)) THEN Get(formData, c) ELSE Arr(<<>>)])

\* an acceptance test that looks for the key emissions instead of total
ExpectsEmissions(apiResult) ==
    /\ ~Falsy(apiResult)
    /\ TypeofObject(apiResult)
    /\ HasKey(apiResult, "emissions")

\* apiResult && typeof apiResult === 'object' && 'total' in apiResult
IsValidApiResult(apiResult) ==
    /\ ~Falsy(apiResult)
    /\ TypeofObject(apiResult)
    /\ HasKey(apiResult, "total")

\* `calc-${Date.now()}-${Math.random().toString(36).substring(2, 9)}`
CalculationId(now, rnd) == [t |-> "string", now |-> now, rnd |-> rnd]

\* useAuthStore.getState().user?.id
CurrentUserId == Get(user, "id")

newCalculation(userId, now, rnd, mockResult, input) ==
    Obj([_id |-> CalculationId(now, rnd),
         user_id |-> userId,
         created_at |-> IsoString(now),
         result_data |-> mockResult,
         input_data |-> input])

IdleCall ==
    [pc |-> "idle", formData |-> Undefined, isAuthenticated |-> FALSE,
     sentToken |-> Undefined, outcome |-> NoOutcome, result |-> Undefined,
     error |-> "", userId |-> Undefined, diagnostic |-> "", requests |-> 0,
     mockRuns |-> 0, writes |-> 0]

\* persistence skipped for anonymous callers only, whatever the user id
SkipWhenAnonymous(authenticated, userId) == ~authenticated

\* calculations.unshift(newCalculation)
UnshiftCalculation(calculations, calculation) == <<calculation>> \o calculations

\* persistence for every caller, signed in or not
PersistAlways(authenticated, userId) == FALSE

\* if (isAuthenticated) { ... if (!userId) return mockResult; ... }: the
\* result is returned without being stored
SkipPersistence(authenticated, userId) == ~authenticated \/ Falsy(userId)

\* calculations.push(newCalculation)
PushCalculation(calculations, calculation) == Append(calculations, calculation)

\* The catch (apiError) block of calculate, for the call record call: the
\* call record and the slot it leaves. rnd is what Math.random() produced,
\* quotaExceeded whether localStorage.setItem refuses the write.
Fallback(call, rnd, quotaExceeded) ==
    LET input == validFormData(call.formData)
        userId == IF call.isAuthenticated THEN CurrentUserId ELSE Undefined
        ran == [call EXCEPT !.mockRuns = @ + 1]
        mockResult == mockCalculations[input].result
        calculations ==
            PushCalculation(ExistingCalculations(storage),
                            newCalculation(userId, clock, rnd, mockResult, input))
        returned == [ran EXCEPT !.pc = "returned", !.result = mockResult,
                                !.userId = userId]
    IN  IF MockThrows(input)
        THEN [call |-> [ran EXCEPT !.pc = "threw", !.error = "TypeError"],
              storage |-> storage]
        ELSE IF SkipPersistence(call.isAuthenticated, userId)
        THEN [call |->
                  [returned EXCEPT !.diagnostic =
                      IF call.isAuthenticated
                      THEN "No user ID found for calculation storage"
                      ELSE ""],
              storage |-> storage]
        ELSE IF quotaExceeded
        THEN [call |-> [ran EXCEPT !.pc = "threw",
                                   !.error = "QuotaExceededError",
                                   !.userId = userId,
                                   !.diagnostic = SlotDiagnostic(storage),
                                   !.writes = @ + 1],
              storage |-> storage]
        ELSE [call |-> [returned EXCEPT !.writes = @ + 1,
                                        !.diagnostic = SlotDiagnostic(storage)],
              storage |-> StoredSlot(calculations)]

----------------------------------------------------------------------------
(* api.calculator.getUserCalculations *)

\* new Date(created_at).getTime()
GetTime(createdAt) == createdAt.iso

\* the filter callback: the record is the user's and has a result whose
\* total is neither null nor undefined
KeepCalculation(entry, userId) ==
    /\ ~Falsy(entry)
    /\ Get(entry, "user_id") = userId
    /\ ~Falsy(Get(entry, "result_data"))
    /\ NotNullish(Get(Get(entry, "result_data"), "total"))

RECURSIVE FilterCalculations(_, _)
FilterCalculations(entries, userId) ==
    IF entries = <<>> THEN <<>>
    ELSE LET rest == FilterCalculations(Tail(entries), userId)
         IN  IF KeepCalculation(Head(entries), userId)
             THEN <<Head(entries)>> \o rest
             ELSE rest

\* the comparator (a, b) => time(a) - time(b), oldest first
CompareOldestFirst(a, b) ==
    GetTime(Get(a, "created_at")) - GetTime(Get(b, "created_at"))

\* the sort comparator (a, b) => time(b) - time(a)
CompareCalculations(a, b) ==
    GetTime(Get(b, "created_at")) - GetTime(Get(a, "created_at"))

\* sorted with entry put in: behind every element that does not have to
\* come after it (Array.prototype.sort is stable)
RECURSIVE Insert(_, _)
Insert(sorted, entry) ==
    IF sorted = <<>> THEN <<entry>>
    ELSE IF CompareCalculations(Head(sorted), entry) <= 0
         THEN <<Head(sorted)>> \o Insert(Tail(sorted), entry)
         ELSE <<entry>> \o sorted

RECURSIVE SortCalculations(_)
SortCalculations(entries) ==
    IF entries = <<>> THEN <<>>
    ELSE Insert(SortCalculations(SubSeq(entries, 1, Len(entries) - 1)),
                entries[Len(entries)])

\* the catch (apiError) block of getUserCalculations: what it returns
LocalCalculations(slot, userId) ==
    LET parsed == ParseSlot(slot)
    IN  IF parsed.thrown \/ ~IsArray(parsed.v) THEN Arr(<<>>)
        ELSE Arr(SortCalculations(FilterCalculations(parsed.v.a, userId)))

IdleFetch ==
    [pc |-> "idle", userId |-> Undefined, sentToken |-> Undefined,
     outcome |-> NoOutcome, result |-> Undefined, error |-> "",
     requests |-> 0, readLog |-> FALSE]

----------------------------------------------------------------------------
(* The environment: users, form inputs, remote answers, slot contents *)

UserIds == {"u1", "u2"}

\* the access token of a user's session
AccessToken == ("u1" :> Str("jwt-u1")) @@ ("u2" :> Str("jwt-u2"))

\* Math.random().toString(36).substring(2, 9)
RandomSuffixes == {"k3x9q1a"}

\* a CalculationResult as the remote endpoint computes it
RemoteResult ==
    Obj([total |-> Num(420),
         breakdown |-> Obj([
             transport |-> Obj([emissions |-> Num(210), percentage |-> Num(50)]),
             electricity |-> Obj([emissions |-> Num(105), percentage |-> Num(25)]),
             waste |-> Obj([emissions |-> Num(63), percentage |-> Num(15)]),
             food |-> Obj([emissions |-> Num(42), percentage |-> Num(10)])])])

\* the 2xx bodies of POST /calculate
CalculateBodies ==
    {RemoteResult,
     Null, Str("ok"), Arr(<<>>),
     Obj([error |-> Str("bad request")]),
     Obj([total |-> Str("n/a")]),
     Obj([total |-> Null])}

CalculateOutcomes ==
    {NetworkError, HttpError, BadJson} \cup {Ok(b) : b \in CalculateBodies}

StoredRecord(userId, createdAt, resultData) ==
    Obj([_id |-> CalculationId(createdAt, "seed"),
         user_id |-> userId,
         created_at |-> IsoString(createdAt),
         result_data |-> resultData,
         input_data |-> InputCar])

\* the 2xx bodies of GET /user/calculations
HistoryBodies ==
    {Arr(<<StoredRecord(Str("u1"), 1, RemoteResult)>>),
     Arr(<<>>),
     Obj([error |-> Str("unauthorized")])}

HistoryOutcomes ==
    {NetworkError, HttpError, BadJson} \cup {Ok(b) : b \in HistoryBodies}

\* What an entry of the slot's array can be: a record one of the revisions of
\* calculate wrote (with a user id or, from the revision that does not check
\* it, without one), a record whose result is missing or has no usable
\* total, null.
SeedEntries ==
    {StoredRecord(Str("u1"), 0, mockCalculations[InputCar].result),
     StoredRecord(Str("u1"), 1, mockCalculations[InputMixed].result),
     StoredRecord(Str("u1"), 2, mockCalculations[InputNothing].result),
     StoredRecord(Str("u2"), 1, mockCalculations[InputCar].result),
     Obj([user_id |-> Str("u1"), created_at |-> IsoString(1),
          input_data |-> InputCar]),
     Obj([created_at |-> IsoString(1), input_data |-> InputCar,
          result_data |-> mockCalculations[InputCar].result]),
     StoredRecord(Str("u1"), 1, Obj([total |-> Null])),
     StoredRecord(Str("u1"), 1, Obj([total |-> Str("n/a")])),
     Null}

RECURSIVE SeqsUpTo(_, _)
SeqsUpTo(S, n) ==
    IF n = 0 THEN {<<>>}
    ELSE LET shorter == SeqsUpTo(S, n - 1)
         IN  shorter \cup {Append(q, e) : q \in shorter, e \in S}

\* a slot that holds no array
CorruptSlots == {SlotAbsent, SlotEmpty, SlotGarbage, SlotJson(Placeholder)}

\* the arrays the slot can hold when the Calculator page is loaded
LoadedLogs ==
    {<<>>,
     <<StoredRecord(Str("u1"), 0, mockCalculations[InputCar].result)>>,
     <<StoredRecord(Str("u2"), 1, mockCalculations[InputCar].result)>>,
     <<Null>>}

\* what the slot can hold when the Calculator page is loaded
InitialSlots == CorruptSlots \cup {SlotJson(Arr(q)) : q \in LoadedLogs}

\* the slots that hold a log: no slot yet, or an array
LogSlots == {SlotAbsent} \cup {SlotJson(Arr(q)) : q \in LoadedLogs}

\* the slots getUserCalculations is tried on
HistorySlots ==
    CorruptSlots \cup {SlotJson(Arr(q)) : q \in SeqsUpTo(SeedEntries, MaxHistory)}

----------------------------------------------------------------------------
(* The pages: the Calculator and the Dashboard components *)

\* the calls of calculate that can be in flight side by side
CallIds == 1..MaxCalls

\* useState of calculatorData: one line item a category, no quantity yet
InputBlank ==
    CalculatorData(<<TransportItem("car", "medium", "", "km")>>,
                   <<ElectricityItem("")>>, <<WasteItem("")>>,
                   <<FoodItem("", "homeCooked")>>)

\* the tabs of the Calculator page, in the order of the TabsList
Tabs == <<"transportation", "electricity", "waste", "food">>

\* the Calculator component as it is mounted: useState("transportation"),
\* useState(false), useState of the blank form; no toast shown
CalculatorMounted ==
    [activeTab |-> "transportation", isSubmitting |-> FALSE,
     calculatorData |-> InputBlank, toast |-> ""]

\* the Dashboard component before it is mounted; useState([]) and
\* useState(true) are its state from the mount on
DashboardUnmounted ==
    [mounted |-> FALSE, isLoading |-> TRUE, calculations |-> <<>>,
     toast |-> ""]

\* item.f && item.f !== "0" && item.f !== ""
HasInput(item, field) ==
    /\ ~Falsy(Get(item, field))
    /\ Get(item, field) # Str("0")
    /\ Get(item, field) # Str("")

\* hasValidInput(): some line item of some category has something typed in
\* that is not "0"
hasValidInput(data) ==
    \E c \in Categories :
        \E k \in DOMAIN Get(data, c).a : HasInput(Get(data, c).a[k], QuantityOf[c])

\* what the forms of the page can hold: nothing yet, a distance, or entries
\* that are no positive numbers
PageInputs == {InputBlank, InputCar, InputNothing}

\* the place of a tab in the TabsList
TabIndex(tab) == CHOOSE k \in DOMAIN Tabs : Tabs[k] = tab

\* one of the built-in calculations of the Dashboard; day orders the dates
\* as the source has them
SampleCalculation(id, day, total, transport, electricity, waste, food) ==
    Obj([_id |-> Str(id),
         date |-> IsoString(day),
         result |-> Obj([
             total |-> Num(total),
             breakdown |-> Obj([
                 transport |-> Obj([emissions |-> Num(transport[1]),
                                    percentage |-> Num(transport[2])]),
                 electricity |-> Obj([emissions |-> Num(electricity[1]),
                                      percentage |-> Num(electricity[2])]),
                 waste |-> Obj([emissions |-> Num(waste[1]),
                                percentage |-> Num(waste[2])]),
                 food |-> Obj([emissions |-> Num(food[1]),
                               percentage |-> Num(food[2])])])])])

\* const mockCalculations = [...] of the Dashboard: the four samples, of
\* 2025-04-01, 2025-03-15, 2025-03-01 and 2025-02-15
SampleCalculations ==
    <<SampleCalculation("1", 4, 520, <<210, 40>>, <<150, 29>>, <<80, 15>>,
                        <<80, 16>>),
      SampleCalculation("2", 3, 600, <<250, 42>>, <<180, 30>>, <<90, 15>>,
                        <<80, 13>>),
      SampleCalculation("3", 2, 650, <<280, 43>>, <<200, 31>>, <<90, 14>>,
                        <<80, 12>>),
      SampleCalculation("4", 1, 680, <<300, 44>>, <<210, 31>>, <<95, 14>>,
                        <<75, 11>>)>>

\* the map callback of fetchCalculations skips the record: !calc ||
\* !calc.result_data
SkipCalculation(entry) == Falsy(entry) \/ Falsy(Get(entry, "result_data"))

\* the object the map callback makes of a record
FormatCalculation(entry, rnd, now) ==
    Obj([_id |-> IF ~Falsy(Get(entry, "_id")) THEN Get(entry, "_id")
                 ELSE IF ~Falsy(Get(entry, "user_id"))
                 THEN Get(entry, "user_id")
                 ELSE Str(rnd),
         date |-> IF ~Falsy(Get(entry, "created_at"))
                  THEN Get(entry, "created_at")
                  ELSE IsoString(now),
         result |-> Get(entry, "result_data")])

\* response.map(...).filter(calc => calc !== null)
RECURSIVE formattedCalculations(_, _, _)
formattedCalculations(response, rnd, now) ==
    IF response = <<>> THEN <<>>
    ELSE IF SkipCalculation(Head(response))
    THEN formattedCalculations(Tail(response), rnd, now)
    ELSE <<FormatCalculation(Head(response), rnd, now)>>
             \o formattedCalculations(Tail(response), rnd, now)

\* a Dashboard that shows the fetched list as it is, empty or not
displayFetched(calculations) == calculations

\* calculations.length > 0 ? calculations : mockCalculations
displayCalculations(calculations) ==
    IF Len(calculations) > 0 THEN calculations ELSE SampleCalculations

\* [...list].sort((a, b) => time(b.date) - time(a.date)): sorted with entry
\* put in behind every element that is not older
RECURSIVE InsertByDate(_, _)
InsertByDate(sorted, entry) ==
    IF sorted = <<>> THEN <<entry>>
    ELSE IF GetTime(Get(entry, "date")) - GetTime(Get(Head(sorted), "date")) <= 0
         THEN <<Head(sorted)>> \o InsertByDate(Tail(sorted), entry)
         ELSE <<entry>> \o sorted

RECURSIVE SortByDate(_)
SortByDate(list) ==
    IF list = <<>> THEN <<>>
    ELSE InsertByDate(SortByDate(SubSeq(list, 1, Len(list) - 1)),
                      list[Len(list)])

\* the list the Calculation History table is made of
sortedCalculations == SortByDate(displayCalculations(dashboard.calculations))

\* the Dashboard shows the table, or the text 'No calculation history
\* available yet.'
HistoryShown == dashboard.mounted /\ ~dashboard.isLoading

NoHistoryShown == HistoryShown /\ ~(Len(sortedCalculations) > 0)

\* a record without result_data
RecordWithoutResult ==
    Obj([user_id |-> Str("u1"), created_at |-> IsoString(1),
         input_data |-> InputCar])

\* the 2xx bodies of GET /user/calculations the Dashboard is tried on
DashboardBodies ==
    {Arr(<<StoredRecord(Str("u1"), 0, RemoteResult),
           StoredRecord(Str("u1"), 1, RemoteResult)>>),
     Arr(<<RecordWithoutResult, StoredRecord(Str("u1"), 1, RemoteResult),
           Null>>),
     Arr(<<RecordWithoutResult, Null>>),
     Arr(<<>>),
     Obj([error |-> Str("unauthorized")])}

DashboardOutcomes == {NetworkError} \cup {Ok(b) : b \in DashboardBodies}

----------------------------------------------------------------------------
(* The state machine *)

InitWith(slots) ==
    /\ user = Null
    /\ token = Null
    /\ isAuthenticated = FALSE
    /\ storage \in slots
    /\ clock = 0
    /\ calc = IdleCall
    /\ hist = IdleFetch
    /\ calls = [i \in CallIds |-> IdleCall]
    /\ calculator = CalculatorMounted
    /\ dashboard = DashboardUnmounted
    /\ location = "/calculator"

Init == InitWith(InitialSlots)

\* authStore.login(user, token) with what api.auth.login or api.auth.signup
\* returned: the session may carry no access token, and signup gives the
\* id '' when Supabase returned no user
login(id, withToken) ==
    /\ user' = Obj([id |-> Str(id)])
    /\ token' = IF withToken /\ id \in UserIds THEN AccessToken[id] ELSE Null
    /\ isAuthenticated' = TRUE
    /\ UNCHANGED <<storage, clock, calc, hist, pages>>

\* authStore.logout()
logout ==
    /\ isAuthenticated
    /\ user' = Null
    /\ token' = Null
    /\ isAuthenticated' = FALSE
    /\ UNCHANGED <<storage, clock, calc, hist, pages>>

\* time passes
Tick ==
    /\ clock < MaxClock
    /\ clock' = clock + 1
    /\ UNCHANGED <<user, token, isAuthenticated, storage, calc, hist, pages>>

\* the slot's array, if it holds one, has room for one more entry
LogHasRoom ==
    storage.t = "json" /\ IsArray(storage.v) => Len(storage.v.a) < MaxLog

\* calculate(formData, isAuthenticated) up to its await: api.post raises
\* "Authentication required" before any request and the call falls back at
\* once, ...
calculateUnauthorized(formData, rnd, quotaExceeded) ==
    /\ calc.pc = "idle"
    /\ LogHasRoom
    /\ AuthenticationRequired(isAuthenticated)
    /\ LET call == [IdleCall EXCEPT !.pc = "awaiting",
                                    !.formData = formData,
                                    !.isAuthenticated = isAuthenticated]
           done == Fallback(call, rnd, quotaExceeded)
       IN  /\ calc' = done.call
           /\ storage' = done.storage
    /\ UNCHANGED <<user, token, isAuthenticated, clock, hist, pages>>

\* ... or api.post sends the request and calculate is suspended on it
calculateSend(formData) ==
    /\ calc.pc = "idle"
    /\ LogHasRoom
    /\ ~AuthenticationRequired(isAuthenticated)
    /\ calc' = [IdleCall EXCEPT !.pc = "awaiting",
                                !.formData = formData,
                                !.isAuthenticated = isAuthenticated,
                                !.sentToken = TokenFor(isAuthenticated),
                                !.requests = 1]
    /\ UNCHANGED <<user, token, isAuthenticated, storage, clock, hist, pages>>

\* a calculate that sends the request once more before it falls back
calculateResumeRetrying(outcome, rnd, quotaExceeded) ==
    /\ calc.pc = "awaiting"
    /\ LET call == [calc EXCEPT !.outcome = outcome]
           apiResult == ApiResult(outcome)
           done == Fallback(call, rnd, quotaExceeded)
       IN  IF IsValidApiResult(apiResult)
           THEN /\ calc' = [call EXCEPT !.pc = "returned",
                                        !.result = apiResult]
                /\ UNCHANGED storage
           ELSE IF calc.requests < 2
           THEN /\ calc' = [calc EXCEPT !.requests = @ + 1]
                /\ UNCHANGED storage
           ELSE /\ calc' = done.call
                /\ storage' = done.storage
    /\ UNCHANGED <<user, token, isAuthenticated, clock, hist, pages>>

\* calculate from the end of the request to its return or throw
calculateResume(outcome, rnd, quotaExceeded) ==
    /\ calc.pc = "awaiting"
    /\ LET call == [calc EXCEPT !.outcome = outcome]
           apiResult == ApiResult(outcome)
           done == Fallback(call, rnd, quotaExceeded)
       IN  IF IsValidApiResult(apiResult)
           THEN /\ calc' = [call EXCEPT !.pc = "returned",
                                        !.result = apiResult]
                /\ UNCHANGED storage
           ELSE /\ calc' = done.call
                /\ storage' = done.storage
    /\ UNCHANGED <<user, token, isAuthenticated, clock, hist, pages>>

\* handleSubmit after the await: the page takes the result or reports the
\* error, and a new submission can start
handleSubmitSettled ==
    /\ calc.pc \in {"returned", "threw"}
    /\ calc' = IdleCall
    /\ UNCHANGED <<user, token, isAuthenticated, storage, clock, hist, pages>>

\* a mockCalculation that keeps what it computed in the slot
mockCalculationCallLogging(formData) ==
    /\ calc.pc = "idle"
    /\ ~mockCalculations[formData].threw
    /\ calc' = [IdleCall EXCEPT !.pc = "returned",
                                !.formData = formData,
                                !.result = mockCalculations[formData].result,
                                !.mockRuns = 1]
    /\ storage' = StoredSlot(<<mockCalculations[formData].result>>)
    /\ UNCHANGED <<user, token, isAuthenticated, clock, hist, pages>>

\* mockCalculation(formData) called on its own: it returns its result or
\* throws, and touches nothing else
mockCalculationCall(formData) ==
    /\ calc.pc = "idle"
    /\ calc' = IF mockCalculations[formData].threw
               THEN [IdleCall EXCEPT !.pc = "threw",
                                     !.formData = formData,
                                     !.error = "TypeError",
                                     !.mockRuns = 1]
               ELSE [IdleCall EXCEPT !.pc = "returned",
                                     !.formData = formData,
                                     !.result = mockCalculations[formData].result,
                                     !.mockRuns = 1]
    /\ UNCHANGED <<user, token, isAuthenticated, storage, clock, hist, pages>>

\* getUserCalculations() with no user id: the empty array at once
getUserCalculationsNoUser ==
    /\ hist.pc = "idle"
    /\ Falsy(CurrentUserId)
    /\ hist' = [IdleFetch EXCEPT !.pc = "returned",
                                 !.userId = CurrentUserId,
                                 !.result = Arr(<<>>)]
    /\ UNCHANGED <<user, token, isAuthenticated, storage, clock, calc, pages>>

\* getUserCalculations() when api.get raises "Authentication required": the
\* catch block reads the local log
getUserCalculationsLocal ==
    /\ hist.pc = "idle"
    /\ ~Falsy(CurrentUserId)
    /\ AuthenticationRequired(TRUE)
    /\ hist' = [IdleFetch EXCEPT !.pc = "returned",
                                 !.userId = CurrentUserId,
                                 !.readLog = TRUE,
                                 !.result =
                                     LocalCalculations(storage, CurrentUserId)]
    /\ UNCHANGED <<user, token, isAuthenticated, storage, clock, calc, pages>>

\* getUserCalculations() when api.get sends the request
getUserCalculationsSend ==
    /\ hist.pc = "idle"
    /\ ~Falsy(CurrentUserId)
    /\ ~AuthenticationRequired(TRUE)
    /\ hist' = [IdleFetch EXCEPT !.pc = "awaiting",
                                 !.userId = CurrentUserId,
                                 !.sentToken = TokenFor(TRUE),
                                 !.requests = 1]
    /\ UNCHANGED <<user, token, isAuthenticated, storage, clock, calc, pages>>

\* getUserCalculations() from the end of the request: whatever api.get
\* resolved to is returned
getUserCalculationsResume(outcome) ==
    /\ hist.pc = "awaiting"
    /\ hist' = [hist EXCEPT !.pc = "returned",
                            !.outcome = outcome,
                            !.result = ApiResult(outcome)]
    /\ UNCHANGED <<user, token, isAuthenticated, storage, clock, calc, pages>>

\* fetchCalculations after the await: the Dashboard takes the response
fetchCalculationsSettled ==
    /\ hist.pc \in {"returned", "threw"}
    /\ hist' = IdleFetch
    /\ UNCHANGED <<user, token, isAuthenticated, storage, clock, calc, pages>>

\* calculate(formData, isAuthenticated) up to its await, for a call made
\* while others are suspended: the call record at the await
Suspended(formData) ==
    [IdleCall EXCEPT !.pc = "awaiting",
                     !.formData = formData,
                     !.isAuthenticated = isAuthenticated,
                     !.sentToken = TokenFor(isAuthenticated),
                     !.requests = 1]

\* calculate from the end of the request to its return or throw, for the
\* call record call: the call record and the slot it leaves. The catch
\* block has no await: it reads the slot, appends and writes in one step.
Resumed(call, outcome, rnd, quotaExceeded) ==
    IF IsValidApiResult(ApiResult(outcome))
    THEN [call |-> [call EXCEPT !.pc = "returned", !.outcome = outcome,
                                !.result = ApiResult(outcome)],
          storage |-> storage]
    ELSE Fallback([call EXCEPT !.outcome = outcome], rnd, quotaExceeded)

\* the call i of calculate is made and is suspended on its request
callSend(i, formData) ==
    /\ calls[i].pc = "idle"
    /\ ~AuthenticationRequired(isAuthenticated)
    /\ calls' = [calls EXCEPT ![i] = Suspended(formData)]
    /\ UNCHANGED <<user, token, isAuthenticated, storage, clock, calc, hist,
                   calculator, dashboard, location>>

\* a resumption that writes its own record over the log instead of the log
\* with the record appended
callResumeOverwriting(i, outcome, rnd, quotaExceeded) ==
    /\ calls[i].pc = "awaiting"
    /\ LET done == Resumed(calls[i], outcome, rnd, quotaExceeded)
       IN  /\ calls' = [calls EXCEPT ![i] = done.call]
           /\ storage' =
                  IF done.storage = storage THEN storage
                  ELSE StoredSlotNewest(ExistingCalculations(done.storage))
    /\ UNCHANGED <<user, token, isAuthenticated, clock, calc, hist,
                   calculator, dashboard, location>>

\* the request of the call i ends and the call runs to its return or throw
callResume(i, outcome, rnd, quotaExceeded) ==
    /\ calls[i].pc = "awaiting"
    /\ LET done == Resumed(calls[i], outcome, rnd, quotaExceeded)
       IN  /\ calls' = [calls EXCEPT ![i] = done.call]
           /\ storage' = done.storage
    /\ UNCHANGED <<user, token, isAuthenticated, clock, calc, hist,
                   calculator, dashboard, location>>

\* updateTransportData, updateElectricityData, updateWasteData and
\* updateFoodData: the user edits the forms
updateData(form) ==
    /\ location = "/calculator"
    /\ calculator' = [calculator EXCEPT !.calculatorData = form]
    /\ UNCHANGED <<user, token, isAuthenticated, storage, clock, calc, hist,
                   calls, dashboard, location>>

\* handleTabChange(value): the user picks a tab in the TabsList
handleTabChange(value) ==
    /\ location = "/calculator"
    /\ calculator' = [calculator EXCEPT !.activeTab = value]
    /\ UNCHANGED <<user, token, isAuthenticated, storage, clock, calc, hist,
                   calls, dashboard, location>>

\* handleSubmit() up to its await: without input a toast and nothing else;
\* with input isSubmitting is set and calculate is called, as the call i
handleSubmit(i, rnd, quotaExceeded) ==
    IF ~hasValidInput(calculator.calculatorData)
    THEN /\ calculator' = [calculator EXCEPT !.toast = "No data provided"]
         /\ UNCHANGED <<calls, storage>>
    ELSE /\ calls[i].pc = "idle"
         /\ \A j \in CallIds : calls[j].pc = "idle" => i <= j
         /\ LogHasRoom
         /\ calculator' = [calculator EXCEPT !.isSubmitting = TRUE]
         /\ IF AuthenticationRequired(isAuthenticated)
            THEN LET call == [IdleCall EXCEPT
                                 !.pc = "awaiting",
                                 !.formData = calculator.calculatorData,
                                 !.isAuthenticated = isAuthenticated]
                     done == Fallback(call, rnd, quotaExceeded)
                 IN  /\ calls' = [calls EXCEPT ![i] = done.call]
                     /\ storage' = done.storage
            ELSE /\ calls' = [calls EXCEPT
                                 ![i] = Suspended(calculator.calculatorData)]
                 /\ UNCHANGED storage

\* a Next button that stays enabled while a submission is under way
handleNextTabEnabled(i, rnd, quotaExceeded) ==
    /\ location = "/calculator"
    /\ IF calculator.activeTab = "food"
       THEN handleSubmit(i, rnd, quotaExceeded)
       ELSE /\ calculator' =
                   [calculator EXCEPT
                       !.activeTab = Tabs[TabIndex(calculator.activeTab) + 1]]
            /\ UNCHANGED <<calls, storage>>
    /\ UNCHANGED <<user, token, isAuthenticated, clock, calc, hist,
                   dashboard, location>>

\* the Next / Calculate button (disabled={isSubmitting}) and handleNextTab():
\* the next tab, or handleSubmit() on the last one
handleNextTab(i, rnd, quotaExceeded) ==
    /\ location = "/calculator"
    /\ ~calculator.isSubmitting
    /\ IF calculator.activeTab = "food"
       THEN handleSubmit(i, rnd, quotaExceeded)
       ELSE /\ calculator' =
                   [calculator EXCEPT
                       !.activeTab = Tabs[TabIndex(calculator.activeTab) + 1]]
            /\ UNCHANGED <<calls, storage>>
    /\ UNCHANGED <<user, token, isAuthenticated, clock, calc, hist,
                   dashboard, location>>

\* a Back button that goes back to the first tab
handleBackTabToStart ==
    /\ location = "/calculator"
    /\ calculator.activeTab # "transportation"
    /\ ~calculator.isSubmitting
    /\ calculator' = [calculator EXCEPT !.activeTab = Tabs[1]]
    /\ UNCHANGED <<user, token, isAuthenticated, storage, clock, calc, hist,
                   calls, dashboard, location>>

\* the Back button (disabled={activeTab === "transportation" ||
\* isSubmitting}) and its onClick: the tab before
handleBackTab ==
    /\ location = "/calculator"
    /\ calculator.activeTab # "transportation"
    /\ ~calculator.isSubmitting
    /\ calculator' =
           [calculator EXCEPT
               !.activeTab = Tabs[TabIndex(calculator.activeTab) - 1]]
    /\ UNCHANGED <<user, token, isAuthenticated, storage, clock, calc, hist,
                   calls, dashboard, location>>

\* handleSubmit() from its await on, for the call i: navigate to /results
\* with the result, or the toast of the failure; finally
\* setIsSubmitting(false)
handleSubmitResume(i) ==
    /\ calls[i].pc \in {"returned", "threw"}
    /\ calls' = [calls EXCEPT ![i] = IdleCall]
    /\ IF calls[i].pc = "returned"
       THEN /\ location' = "/results"
            /\ calculator' = [calculator EXCEPT !.isSubmitting = FALSE]
       ELSE /\ calculator' = [calculator EXCEPT !.isSubmitting = FALSE,
                                                !.toast = "Calculation Failed"]
            /\ UNCHANGED location
    /\ UNCHANGED <<user, token, isAuthenticated, storage, clock, calc, hist,
                   dashboard>>

\* the user comes back from the results: the Calculator is mounted afresh
openCalculator ==
    /\ location = "/results"
    /\ location' = "/calculator"
    /\ calculator' = CalculatorMounted
    /\ UNCHANGED <<user, token, isAuthenticated, storage, clock, calc, hist,
                   calls, dashboard>>

\* getUserCalculations() up to its return or its await: the record of the
\* call
getUserCalculationsCalled ==
    IF Falsy(CurrentUserId)
    THEN [IdleFetch EXCEPT !.pc = "returned",
                           !.userId = CurrentUserId,
                           !.result = Arr(<<>>)]
    ELSE IF AuthenticationRequired(TRUE)
    THEN [IdleFetch EXCEPT !.pc = "returned",
                           !.userId = CurrentUserId,
                           !.readLog = TRUE,
                           !.result = LocalCalculations(storage, CurrentUserId)]
    ELSE [IdleFetch EXCEPT !.pc = "awaiting",
                           !.userId = CurrentUserId,
                           !.sentToken = TokenFor(TRUE),
                           !.requests = 1]

\* the user opens /dashboard: the component is mounted and its effect runs,
\* navigate("/login") for a visitor, fetchCalculations() up to its await for
\* a user. A fetch of an earlier mount is no longer listened to.
openDashboard ==
    /\ location # "/dashboard"
    /\ IF ~isAuthenticated
       THEN /\ location' = "/login"
            /\ dashboard' = DashboardUnmounted
            /\ hist' = IdleFetch
       ELSE /\ location' = "/dashboard"
            /\ dashboard' = [DashboardUnmounted EXCEPT !.mounted = TRUE]
            /\ hist' = getUserCalculationsCalled
    /\ UNCHANGED <<user, token, isAuthenticated, storage, clock, calc, calls,
                   calculator>>

\* api.get of services/api.ts: a request that fails, or is answered with a
\* status that is not 2xx, makes api.get throw, and getUserCalculations with
\* it
getUserCalculationsReject ==
    /\ hist.pc = "awaiting"
    /\ hist' = [hist EXCEPT !.pc = "threw",
                            !.outcome = HttpError,
                            !.error = "Something went wrong"]
    /\ UNCHANGED <<user, token, isAuthenticated, storage, clock, calc, pages>>

\* a fetchCalculations without its finally: the loading state ends only
\* when the call returned
fetchCalculationsResumeWithoutFinally(rnd) ==
    /\ hist.pc \in {"returned", "threw"}
    /\ hist' = [hist EXCEPT !.pc = "settled"]
    /\ dashboard' =
           IF ~dashboard.mounted THEN dashboard
           ELSE IF hist.pc = "threw"
           THEN [dashboard EXCEPT
                    !.calculations = <<>>,
                    !.toast = "Failed to load your calculation history"]
           ELSE IF IsArray(hist.result)
           THEN [dashboard EXCEPT
                    !.calculations =
                        formattedCalculations(hist.result.a, rnd, clock),
                    !.isLoading = FALSE]
           ELSE [dashboard EXCEPT !.calculations = <<>>, !.isLoading = FALSE]
    /\ UNCHANGED <<user, token, isAuthenticated, storage, clock, calc, calls,
                   calculator, location>>

\* fetchCalculations() from its await on: the records are formatted and
\* set, an answer that is no array or a failure sets the empty array;
\* finally setIsLoading(false). A component that is no longer mounted keeps
\* nothing of it.
fetchCalculationsResume(rnd) ==
    /\ hist.pc \in {"returned", "threw"}
    /\ hist' = [hist EXCEPT !.pc = "settled"]
    /\ dashboard' =
           IF ~dashboard.mounted THEN dashboard
           ELSE IF hist.pc = "threw"
           THEN [dashboard EXCEPT
                    !.calculations = <<>>,
                    !.toast = "Failed to load your calculation history",
                    !.isLoading = FALSE]
           ELSE IF IsArray(hist.result)
           THEN [dashboard EXCEPT
                    !.calculations =
                        formattedCalculations(hist.result.a, rnd, clock),
                    !.isLoading = FALSE]
           ELSE [dashboard EXCEPT !.calculations = <<>>, !.isLoading = FALSE]
    /\ UNCHANGED <<user, token, isAuthenticated, storage, clock, calc, calls,
                   calculator, location>>

\* authStore.logout() while the Dashboard is shown: its effect runs again
\* and navigates to /login
logoutOnDashboard ==
    /\ location = "/dashboard"
    /\ isAuthenticated
    /\ user' = Null
    /\ token' = Null
    /\ isAuthenticated' = FALSE
    /\ location' = "/login"
    /\ dashboard' = [dashboard EXCEPT !.mounted = FALSE]
    /\ UNCHANGED <<storage, clock, calc, hist, calls, calculator>>

\* the user leaves the Dashboard for the Calculator
closeDashboard ==
    /\ location = "/dashboard"
    /\ location' = "/calculator"
    /\ dashboard' = [dashboard EXCEPT !.mounted = FALSE]
    /\ UNCHANGED <<user, token, isAuthenticated, storage, clock, calc, hist,
                   calls, calculator>>

\* mockCalculation(formData) of one of the revisions, called on its own
mockCalculationCallOf(revision, formData) ==
    /\ calc.pc = "idle"
    /\ calc' = IF mockCalculationsOf[revision][formData].threw
               THEN [IdleCall EXCEPT !.pc = "threw",
                                     !.formData = formData,
                                     !.error = "TypeError",
                                     !.diagnostic = ConsoleLine[revision],
                                     !.mockRuns = 1]
               ELSE [IdleCall EXCEPT
                        !.pc = "returned",
                        !.formData = formData,
                        !.result = mockCalculationsOf[revision][formData].result,
                        !.diagnostic = ConsoleLine[revision],
                        !.mockRuns = 1]
    /\ UNCHANGED <<user, token, isAuthenticated, storage, clock, hist, pages>>

Session ==
    \/ \E id \in UserIds \cup {""}, withToken \in BOOLEAN : login(id, withToken)
    \/ logout

\* the Calculator page submits one of the forms and the request ends in one
\* of the outcomes
CalculateOver(forms, outcomes) ==
    \/ \E f \in forms, rnd \in RandomSuffixes, q \in BOOLEAN :
           calculateUnauthorized(f, rnd, q)
    \/ \E f \in forms : calculateSend(f)
    \/ \E o \in outcomes, rnd \in RandomSuffixes, q \in BOOLEAN :
           calculateResume(o, rnd, q)
    \/ handleSubmitSettled

Calculate == CalculateOver(Inputs, CalculateOutcomes)

\* the Dashboard fetches the history and the request ends in one of the
\* outcomes
GetUserCalculationsOver(outcomes) ==
    \/ getUserCalculationsNoUser
    \/ getUserCalculationsLocal
    \/ getUserCalculationsSend
    \/ \E o \in outcomes : getUserCalculationsResume(o)
    \/ fetchCalculationsSettled

GetUserCalculations == GetUserCalculationsOver(HistoryOutcomes)

\* The Calculator page: sessions come and go, time passes, calculations are
\* submitted one after the other.
Next == Session \/ Tick \/ Calculate

Spec == Init /\ [][Next]_vars

\* The Emission Model on its own: mockCalculation is applied to a form, in
\* any session and over any content of the slot.
Evaluate ==
    \/ \E f \in ModelInputs : mockCalculationCall(f)
    \/ handleSubmitSettled

NextModel == Session \/ Evaluate

SpecModel == Init /\ [][NextModel]_vars

\* The two pages over one log: calculations are submitted and the history
\* is fetched in any order, from a slot that holds a log; a request fails or
\* is answered as it should be.
NextLog ==
    \/ Session
    \/ CalculateOver(Inputs, {NetworkError, Ok(RemoteResult)})
    \/ GetUserCalculationsOver({NetworkError, Ok(Arr(<<>>))})

SpecLog == InitWith(LogSlots) /\ [][NextLog]_vars

\* The Dashboard: sessions come and go and the history is fetched, over
\* every content of the slot.
NextHistory == Session \/ GetUserCalculations

SpecHistory == InitWith(HistorySlots) /\ [][NextHistory]_vars

\* Calls of calculate side by side: up to MaxCalls calls are made in any
\* order, each is suspended on its request, and the requests end in any
\* order, while users sign in with their token and out.
NextConcurrent ==
    \/ \E id \in UserIds : login(id, TRUE)
    \/ logout
    \/ \E i \in CallIds, f \in {InputCar} : callSend(i, f)
    \/ \E i \in CallIds, o \in {NetworkError, Ok(RemoteResult)},
          rnd \in RandomSuffixes, q \in BOOLEAN : callResume(i, o, rnd, q)

SpecConcurrent == InitWith(LogSlots \cup {SlotGarbage}) /\ [][NextConcurrent]_vars

\* The Calculator page as the user drives it: the forms are edited, tabs are
\* picked, Next and Back are pressed, the request of a submission ends, in
\* any order; a user signs in, with or without access token, and out.
NextCalculator ==
    \/ \E withToken \in BOOLEAN : login("u1", withToken)
    \/ logout
    \/ \E form \in PageInputs : updateData(form)
    \/ \E k \in DOMAIN Tabs : handleTabChange(Tabs[k])
    \/ \E i \in CallIds, rnd \in RandomSuffixes, q \in BOOLEAN :
           handleNextTab(i, rnd, q)
    \/ handleBackTab
    \/ \E i \in CallIds, o \in {NetworkError, Ok(RemoteResult)},
          rnd \in RandomSuffixes, q \in BOOLEAN : callResume(i, o, rnd, q)
    \/ \E i \in CallIds : handleSubmitResume(i)
    \/ openCalculator

SpecCalculator ==
    InitWith({SlotAbsent, SlotJson(Arr(<<>>))}) /\ [][NextCalculator]_vars

\* The Dashboard as the user drives it: a user signs in or out on another
\* page, opens the Dashboard, the request of the history ends, the
\* Dashboard is left; the slot holds a log.
NextDashboard ==
    \/ location # "/dashboard" /\ Session
    \/ openDashboard
    \/ \E o \in DashboardOutcomes : getUserCalculationsResume(o)
    \/ getUserCalculationsReject
    \/ \E rnd \in RandomSuffixes : fetchCalculationsResume(rnd)
    \/ logoutOnDashboard
    \/ closeDashboard

SpecDashboard == InitWith(LogSlots) /\ [][NextDashboard]_vars

\* fetchCalculations resumes as soon as the promise of getUserCalculations
\* is settled: the continuation is a microtask that cannot be put off
SpecDashboardFair ==
    SpecDashboard /\ \A rnd \in RandomSuffixes : WF_vars(fetchCalculationsResume(rnd))

\* The revisions of the Emission Model side by side: mockCalculation of any
\* revision is applied to any form of the model.
NextRevisions ==
    \/ \E revision \in Revisions, f \in ModelInputs :
           mockCalculationCallOf(revision, f)
    \/ handleSubmitSettled

SpecRevisions == InitWith({SlotAbsent}) /\ [][NextRevisions]_vars

----------------------------------------------------------------------------
(* Claims about calculate *)

\* the call has ended
Finished(call) == call.pc \in {"returned", "threw"}

\* this step ends the call of calculate
CalculateEnds == ~Finished(calc) /\ Finished(calc')

\* what the Emission Model computes for the submitted input
LocalResult(call) == mockCalculations[validFormData(call.formData)].result

\* the request did not give an answer: the endpoint was unreachable, or
\* answered outside 2xx, or with a body that is no JSON
RequestFailed(outcome) == outcome.kind \in {"networkError", "httpError", "badJson"}

\* a value that has a numeric total
HasNumericTotal(v) ==
    /\ HasKey(v, "total")
    /\ v.o.total.t = "number"
    /\ ~IsNaN(v.o.total)

\* the slot holds a log: an array, or nothing yet
HoldsLog(slot) ==
    \/ slot.t \in {"absent", "empty"}
    \/ slot.t = "json" /\ IsArray(slot.v)

\* the entries of a slot that holds a log
LogEntries(slot) == IF slot.t = "json" THEN slot.v.a ELSE <<>>

\* localStorage.setItem accepted the write of this call, if it made one
WriteAccepted(call) == call.error # "QuotaExceededError"

\* the slot after is the log before with one record more at its end, of the
\* user userId, with the input and the result of call
OneRecordAppended(before, after, call, userId) ==
    /\ after.t = "json"
    /\ IsArray(after.v)
    /\ Len(after.v.a) = Len(before) + 1
    /\ SubSeq(after.v.a, 1, Len(before)) = before
    /\ LET record == after.v.a[Len(after.v.a)]
       IN  /\ Get(record, "user_id") = userId
           /\ Get(record, "input_data") = call.formData
           /\ Get(record, "result_data") = call.result

C2_CalculateNeverThrows == calc.pc # "threw"

\* C3: when the answer of /calculate has a numeric total, calculate returns
\* that answer unchanged and mockCalculation is not run (and nothing is
\* written).
C3_WellFormedAnswerReturned ==
    Finished(calc) /\ calc.outcome.kind = "ok" /\ HasNumericTotal(calc.outcome.body)
        => /\ calc.pc = "returned"
           /\ calc.result = calc.outcome.body
           /\ calc.mockRuns = 0
           /\ calc.writes = 0

C3_Witness ==
    /\ calc.pc = "returned"
    /\ calc.outcome = Ok(RemoteResult)
    /\ calc.result = RemoteResult
    /\ calc.isAuthenticated

\* C4: when the remote attempt fails in any way (no answer, or an answer
\* that is not an object with a numeric total), what calculate returns is the
\* result of mockCalculation for the same input.
C4_AnyFailureFallsBack ==
    /\ calc.pc = "returned"
    /\ \/ RequestFailed(calc.outcome)
       \/ calc.outcome.kind = "ok" /\ ~HasNumericTotal(calc.outcome.body)
    => calc.result = LocalResult(calc)

\* C5: when calculate falls back with isAuthenticated true and no user id,
\* the slot is left as it was and the local result is returned.
C5_NoUserNoPersistence ==
    [][CalculateEnds /\ calc'.mockRuns = 1 /\ calc'.isAuthenticated
         /\ Falsy(CurrentUserId)
       => /\ storage' = storage
          /\ calc'.writes = 0
          /\ calc'.pc = "returned"
          /\ calc'.result = LocalResult(calc')]_vars

C5_Witness ==
    /\ calc.pc = "returned"
    /\ calc.isAuthenticated
    /\ calc.mockRuns = 1
    /\ Falsy(calc.userId)
    /\ calc.diagnostic = "No user ID found for calculation storage"
    /\ calc.result = mockCalculations[InputCar].result
    /\ calc.writes = 0
    /\ user = Obj([id |-> Str("")])
    /\ storage.t = "json"
    /\ Len(storage.v.a) = 1

----------------------------------------------------------------------------
(* Claims about getUserCalculations *)

\* the entries of the array the call returned
Returned(fetch) == fetch.result.a

\* C6: when the remote retrieval fails (no answer) and a user id is known,
\* getUserCalculations returns the collection read from the local log for
\* that user.
C6_FailedRetrievalReadsLocalLog ==
    hist.pc = "returned" /\ RequestFailed(hist.outcome) /\ ~Falsy(hist.userId)
        => hist.result = LocalCalculations(storage, hist.userId)

\* C7: every record of the history returned from the local log is the
\* current user's and has a result with a numeric total.
C7_HistoryIsOwnAndNumeric ==
    hist.pc = "returned" /\ hist.readLog
        => \A i \in DOMAIN Returned(hist) :
               /\ Get(Returned(hist)[i], "user_id") = hist.userId
               /\ HasNumericTotal(Get(Returned(hist)[i], "result_data"))

\* C8: getUserCalculations returns the empty array, and does not fail, when
\* the user id is unknown, or when the remote gave no history and the slot is
\* absent, unparsable or holds no array.
C8_EmptyWithoutUserOrLog ==
    /\ Finished(hist)
    /\ \/ Falsy(hist.userId)
       \/ hist.outcome.kind # "ok" /\ ~(storage.t = "json" /\ IsArray(storage.v))
    => hist.pc = "returned" /\ hist.result = Arr(<<>>)

\* C9: the history returned from the local log is ordered newest first: no
\* record stands before one with a later created_at.
C9_NewestFirst ==
    hist.pc = "returned" /\ hist.readLog
        => \A i, j \in DOMAIN Returned(hist) :
               i < j => GetTime(Get(Returned(hist)[i], "created_at"))
                            >= GetTime(Get(Returned(hist)[j], "created_at"))

C9_Witness ==
    /\ hist.pc = "returned"
    /\ hist.readLog
    /\ storage.t = "json"
    /\ IsArray(storage.v)
    /\ Len(storage.v.a) = 2
    /\ Len(Returned(hist)) = 2
    /\ GetTime(Get(storage.v.a[1], "created_at"))
           < GetTime(Get(storage.v.a[2], "created_at"))
    /\ Returned(hist) = <<storage.v.a[2], storage.v.a[1]>>

----------------------------------------------------------------------------
(* Claims about the Emission Model *)

\* the field that holds the quantity of a line item
QuantityField(category) ==
    CASE category = "transportData" -> "distance"
      [] category = "electricityData" -> "consumption"
      [] category = "wasteData" -> "garbageBags"
      [] category = "foodData" -> "moneySpent"

\* the name of a category in the breakdown
BreakdownKey(category) ==
    CASE category = "transportData" -> "transport"
      [] category = "electricityData" -> "electricity"
      [] category = "wasteData" -> "waste"
      [] category = "foodData" -> "food"

\* mockCalculation has been applied to a form and has returned
Applied == calc.pc = "returned" /\ calc.mockRuns = 1 /\ calc.requests = 0

\* the reported numbers of the call: tenths of a kg, whole percents
ReportedTotal == Get(calc.result, "total").n

ReportedEmissions(category) ==
    Get(Get(Get(calc.result, "breakdown"), BreakdownKey(category)),
        "emissions").n

ReportedPercentage(category) ==
    Get(Get(Get(calc.result, "breakdown"), BreakdownKey(category)),
        "percentage").n

\* the quantity of the line item is absent, not a number, or not above zero
Unusable(category, item) ==
    LET v == Get(item, QuantityField(category))
    IN  \/ v = Undefined
        \/ v.t = "string" /\ v.s \notin (DOMAIN Numerals \cup DOMAIN Decimals)
        \/ v.t = "string" /\ v.s \in DOMAIN Numerals /\ Numerals[v.s] <= 0
        \/ v.t = "string" /\ v.s \in DOMAIN Decimals /\ Decimals[v.s][1] <= 0

\* C11: when no line item of the form has a usable quantity (the field is
\* absent, is not a number, or is zero or less), the result has total 0 and
\* emissions 0 and percentage 0 in every category.
C11_NothingUsableGivesZeros ==
    /\ Applied
    /\ \A c \in Categories : \A i \in DOMAIN Get(calc.formData, c).a :
           /\ Get(calc.formData, c).a[i].t = "object"
           /\ Unusable(c, Get(calc.formData, c).a[i])
    => /\ ReportedTotal = 0
       /\ \A c \in Categories :
              ReportedEmissions(c) = 0 /\ ReportedPercentage(c) = 0

C11_Witness ==
    /\ Applied
    /\ calc.formData = InputNothing
    /\ ReportedTotal = 0
    /\ ReportedPercentage("transportData") = 0

\* mockCalculation has been applied to a form and has returned or thrown
Ended == calc.pc \in {"returned", "threw"} /\ calc.mockRuns = 1 /\ calc.requests = 0

\* C12: a malformed line item (its quantity unusable, no fields at all, or
\* null) inserted at any position of any category raises no error and leaves
\* the result what it is without the item.
C12_MalformedItemIsIgnored ==
    Ended =>
        \A f \in Inputs, c \in Categories, m \in MalformedItems :
            \A i \in 1..(Len(Get(f, c).a) + 1) :
                calc.formData = InsertItem(f, c, i, m)
                    => /\ calc.pc = "returned"
                       /\ calc.result = mockCalculations[f].result

\* Exact emissions are whole numbers of 1 / ExactUnit kg.
ExactUnit == 10 ^ 7

\* the factor the specification gives a line item, in hundredths of a kg
StatedFactor(category, item) ==
    LET type == Get(item, "transportType")
        vehicle == Get(item, "vehicleType")
        class == Get(item, "travelClass")
        eatery == Get(item, "eateryType")
    IN  CASE category = "electricityData" -> 50
          [] category = "wasteData" -> 1000
          [] category = "foodData" /\ eatery = Str("homeCooked") -> 50
          [] category = "foodData" /\ eatery = Str("fastFood") -> 120
          [] category = "foodData" /\ eatery = Str("restaurant") -> 200
          [] type = Str("car") /\ vehicle = Str("small") -> 15
          [] type = Str("car") /\ vehicle = Str("medium") -> 20
          [] type = Str("car") /\ vehicle = Str("large") -> 30
          [] type = Str("bus") -> 10
          [] type = Str("train") -> 5
          [] type = Str("plane") /\ class = Str("economy") -> 25
          [] type = Str("plane") /\ class = Str("business") -> 50
          [] type = Str("plane") /\ class = Str("first") -> 75

\* the quantity of a usable line item as the fraction n / per
StatedQuantity(category, item) ==
    LET s == Get(item, QuantityField(category)).s
    IN  IF s \in DOMAIN Numerals THEN <<Numerals[s], 1>> ELSE Decimals[s]

\* quantity x factor, exactly; a distance in miles is 1.60934 km a mile
ExactContribution(category, item) ==
    LET q == StatedQuantity(category, item)
        perUnit == IF category = "transportData"
                        /\ Get(item, "distanceUnit") = Str("miles")
                   THEN 160934
                   ELSE 100000
    IN  IF perUnit % q[2] = 0
        THEN q[1] * StatedFactor(category, item) * (perUnit \div q[2])
        ELSE (q[1] * StatedFactor(category, item) * perUnit) \div q[2]

RECURSIVE ExactSum(_, _)
ExactSum(category, items) ==
    IF items = <<>> THEN 0
    ELSE (IF Unusable(category, Head(items)) THEN 0
          ELSE ExactContribution(category, Head(items)))
             + ExactSum(category, Tail(items))

ExactEmissions(formData, category) ==
    ExactSum(category, Get(formData, category).a)

\* a double to the nearest 1 / ExactUnit
Nearest(x) == MathRound(DoubleMul(x, DoubleOf(ExactUnit)))

\* C13: the unrounded emissions of a category are the sum, over its usable
\* line items, of quantity x factor, with the factors car 0.15 / 0.20 / 0.30,
\* bus 0.10, train 0.05, plane 0.25 / 0.50 / 0.75, electricity 0.5, waste 10,
\* food 0.5 / 1.2 / 2.0 (to the precision of a double, far below 1e-7 kg).
C13_SumOfQuantityTimesFactor ==
    Applied =>
        \A c \in Categories :
            Nearest(CategoryEmissions(calc.formData, c))
                = ExactEmissions(calc.formData, c)

C13_Witness ==
    /\ Applied
    /\ calc.formData = InputFleet
    /\ ExactEmissions(calc.formData, "transportData") = 105640100
    /\ ReportedEmissions("transportData") = 106
    /\ ReportedEmissions("foodData") = 190

\* the reported total of mockCalculation(formData), in tenths of a kg
TotalOf(formData) == Get(mockCalculations[formData].result, "total").n

\* two reported numbers are within 0.1 of each other
Within(a, b) == a - b \in {0 - 1, 0, 1}

\* C14: a distance in miles is multiplied by 1.60934 before the factor is
\* applied: a line item of d miles reports the emissions (to 0.1) of the
\* same item with d x 1.60934 km, and a distance in km is not converted.
C14_MilesAreConverted ==
    Applied =>
        /\ \A d \in MilesAndKm :
               /\ calc.formData = InputFlight(d[1], "miles")
                      => Within(ReportedTotal, TotalOf(InputFlight(d[2], "km")))
               /\ calc.formData = InputDrive(d[1], "miles")
                      => Within(ReportedTotal, TotalOf(InputDrive(d[2], "km")))
        /\ calc.formData \in InputsInKm \cup InputsInMiles
               => Nearest(CategoryEmissions(calc.formData, "transportData"))
                      = ExactEmissions(calc.formData, "transportData")

C14_Witness ==
    /\ Applied
    /\ calc.formData = InputFlight("100", "miles")
    /\ ReportedTotal = 402
    /\ TotalOf(InputFlight("160.934", "km")) = 402
    /\ TotalOf(InputFlight("100", "km")) = 250

\* the four percentages of the call, added up
SumOfPercentages ==
    ReportedPercentage("transportData") + ReportedPercentage("electricityData")
        + ReportedPercentage("wasteData") + ReportedPercentage("foodData")

\* C15: when the total is above zero, every percentage is a whole number
\* from 0 to 100 and the four percentages add up to between 97 and 103.
C15_PercentagesAreShares ==
    Applied /\ (\E c \in Categories : ExactEmissions(calc.formData, c) > 0)
        => /\ \A c \in Categories : ReportedPercentage(c) \in 0..100
           /\ SumOfPercentages \in 97..103

C15_Witness ==
    /\ Applied
    /\ calc.formData = InputThirds
    /\ ReportedTotal = 30
    /\ ReportedPercentage("electricityData") = 33
    /\ SumOfPercentages = 99

ExactTotal(formData) ==
    ExactEmissions(formData, "transportData")
        + ExactEmissions(formData, "electricityData")
        + ExactEmissions(formData, "wasteData")
        + ExactEmissions(formData, "foodData")

\* an exact emission rounded half up to tenths of a kg
HalfUpTenths(exact) == (exact + ExactUnit \div 20) \div (ExactUnit \div 10)

RECURSIVE Gcd(_, _)
Gcd(a, b) == IF b = 0 THEN a ELSE Gcd(b, a % b)

\* 100 x part / whole rounded half up to a whole number, 0 for no whole
HalfUpPercentage(part, whole) ==
    IF whole = 0 \/ part = 0 THEN 0
    ELSE LET g == Gcd(part, whole)
         IN  (200 * (part \div g) + whole \div g) \div (2 * (whole \div g))

\* C16: the reported total is the unrounded total rounded half up to one
\* decimal, the emissions of a category are rounded likewise, and a
\* percentage is 100 x category / total of the unrounded values rounded to a
\* whole number, 0 when the total is 0.
C16_RoundedHalfUp ==
    Applied =>
        /\ ReportedTotal = HalfUpTenths(ExactTotal(calc.formData))
        /\ \A c \in Categories :
               /\ ReportedEmissions(c)
                      = HalfUpTenths(ExactEmissions(calc.formData, c))
               /\ ReportedPercentage(c)
                      = HalfUpPercentage(ExactEmissions(calc.formData, c),
                                         ExactTotal(calc.formData))

\* the categories of the form whose emissions are not zero
NonZeroCategories(formData) ==
    {c \in Categories : ExactEmissions(formData, c) > 0}

\* C17: when exactly one category has emissions, its percentage is 100, the
\* other percentages are 0 and the reported total is the reported emissions
\* of that category; 100 km in a medium car gives total 20.0, transport
\* emissions 20.0 and transport percentage 100.
C17_SingleCategoryIsTheWhole ==
    /\ Applied /\ Cardinality(NonZeroCategories(calc.formData)) = 1
           => \A c \in Categories :
                  IF c \in NonZeroCategories(calc.formData)
                  THEN /\ ReportedPercentage(c) = 100
                       /\ ReportedEmissions(c) = ReportedTotal
                  ELSE /\ ReportedPercentage(c) = 0
                       /\ ReportedEmissions(c) = 0
    /\ Applied /\ calc.formData = InputCar
           => /\ ReportedTotal = 200
              /\ ReportedEmissions("transportData") = 200
              /\ ReportedPercentage("transportData") = 100

C17_Witness ==
    /\ Applied
    /\ calc.formData = InputCar
    /\ NonZeroCategories(calc.formData) = {"transportData"}
    /\ ReportedTotal = 200
    /\ ReportedPercentage("transportData") = 100
    /\ ReportedPercentage("foodData") = 0

----------------------------------------------------------------------------
(* Claims about the log *)

\* C19: records of the log are never changed, moved or deleted: from a slot
\* that holds a log, every step of calculate and of getUserCalculations
\* leaves a log that starts with the records it had, in their order, with at
\* most one record more at its end.
C19_LogOnlyGrowsAtItsEnd ==
    [][HoldsLog(storage)
          => /\ HoldsLog(storage')
             /\ Len(LogEntries(storage')) - Len(LogEntries(storage)) \in {0, 1}
             /\ SubSeq(LogEntries(storage'), 1, Len(LogEntries(storage)))
                    = LogEntries(storage)]_vars

C19_Witness ==
    /\ storage.t = "json"
    /\ IsArray(storage.v)
    /\ Len(storage.v.a) = 2
    /\ storage.v.a[1] = StoredRecord(Str("u2"), 1, mockCalculations[InputCar].result)
    /\ Get(storage.v.a[2], "user_id") = Str("u1")
    /\ calc.pc = "returned"
    /\ calc.writes = 1
    /\ hist.pc = "returned"
    /\ hist.readLog
    /\ Len(Returned(hist)) = 1
    /\ Returned(hist)[1] = storage.v.a[2]

----------------------------------------------------------------------------
(* Claims about the steps of one call of calculate *)

\* C20: one call of calculate sends at most one remote request, runs
\* mockCalculation at most once and only when the remote attempt was
\* rejected before it was sent or did not give a usable result, sends no
\* request after that, and writes at most one record.
C20_OneRequestOneFallbackOneRecord ==
    /\ [](calc.requests <= 1 /\ calc.mockRuns <= 1 /\ calc.writes <= 1)
    /\ [](calc.mockRuns = 1
             => IF calc.requests = 0 THEN calc.outcome = NoOutcome
                ELSE /\ calc.outcome # NoOutcome
                     /\ ~IsValidApiResult(ApiResult(calc.outcome)))
    /\ [][/\ (calc'.mockRuns > calc.mockRuns
                 => \/ calc.pc = "idle" /\ AuthenticationRequired(isAuthenticated)
                    \/ calc.pc = "awaiting" /\ calc.requests = 1)
           /\ (calc.mockRuns = 1 /\ calc'.pc # "idle" => calc' = calc)
           /\ (storage' # storage
                 => /\ calc'.writes = 1 /\ calc.writes = 0
                    /\ Len(LogEntries(storage'))
                           <= Len(ExistingCalculations(storage)) + 1)]_vars

C20_Witness ==
    /\ calc.pc = "returned"
    /\ calc.outcome = Ok(Obj([error |-> Str("bad request")]))
    /\ calc.requests = 1
    /\ calc.mockRuns = 1
    /\ calc.writes = 1
    /\ calc.result = mockCalculations[InputCar].result
    /\ storage.t = "json"
    /\ Len(storage.v.a) = 1

----------------------------------------------------------------------------
(* Claims about calls of calculate side by side and about the session *)

\* the entries of the log that a call of calculate wrote since the page was
\* loaded: their _id ends in what Math.random() gave
WrittenByCalls ==
    {k \in DOMAIN ExistingCalculations(storage) :
        LET entry == ExistingCalculations(storage)[k]
        IN  /\ HasKey(entry, "_id")
            /\ Get(entry, "_id").rnd \in RandomSuffixes}

\* the calls that returned after they had written their record
CallsThatWrote ==
    {i \in CallIds : calls[i].pc = "returned" /\ calls[i].writes = 1}

\* C21: the read-append-write of the log by one call of calculate is never
\* interleaved with that of another: however authenticated calls that fall
\* back locally are made and resumed side by side, no record is lost, the
\* log holds one new record for every call that wrote one.
C21_NoRecordIsLost ==
    Cardinality(WrittenByCalls) = Cardinality(CallsThatWrote)

C21_Witness ==
    /\ \A i \in CallIds :
           /\ calls[i].pc = "returned"
           /\ calls[i].isAuthenticated
           /\ calls[i].outcome = NetworkError
           /\ calls[i].writes = 1
    /\ Cardinality(WrittenByCalls) = MaxCalls
    /\ Len(ExistingCalculations(storage)) = MaxCalls + 1

\* C22: calculate leaves the slot as it is whenever it was called with
\* isAuthenticated false, and whenever the remote response is accepted and
\* returned, also for an authenticated caller: the slot changes only on the
\* local-fallback path of an authenticated call.
C22_SlotWrittenOnlyOnAuthenticatedFallback ==
    [][/\ (~calc'.isAuthenticated => storage' = storage)
       /\ (calc'.pc = "returned" /\ calc'.mockRuns = 0 => storage' = storage)
       /\ (storage' # storage
             => /\ calc'.isAuthenticated
                /\ calc'.mockRuns = 1
                /\ calc'.writes = 1)]_vars

C22_Witness ==
    /\ calc.pc = "returned"
    /\ ~calc.isAuthenticated
    /\ calc.sentToken = FREE_USER_TOKEN
    /\ calc.outcome = NetworkError
    /\ calc.mockRuns = 1
    /\ calc.result = mockCalculations[InputCar].result
    /\ calc.writes = 0
    /\ storage = SlotJson(Arr(<<>>))

\* the user who was signed in when the call was made: the request carries
\* that user's token
InvokedBy(call) == CHOOSE id \in UserIds : AccessToken[id] = call.sentToken

\* C23: every record calculate writes carries the user id of the user who
\* was signed in when the call was made, also when a logout or a login as
\* another user happened while the call was suspended on its request.
C23_RecordCarriesTheInvokersUserId ==
    /\ calc.pc = "returned"
    /\ calc.writes = 1
    /\ \E id \in UserIds : AccessToken[id] = calc.sentToken
    => LET log == ExistingCalculations(storage)
       IN  /\ calc.userId = Str(InvokedBy(calc))
           /\ Get(log[Len(log)], "user_id") = Str(InvokedBy(calc))

\* C24: a request that requires authentication is never sent without the
\* user's own token. With requireAuth true and no token in the store,
\* api.post and api.get raise before any request is made; the free-user
\* token goes only with requests made with requireAuth false; GET
\* /user/calculations is never sent with the free-user token.
C24_NoAuthenticatedRequestWithoutTheUsersToken ==
    /\ [](~Falsy(token) => token = AccessToken[Get(user, "id").s])
    /\ [](calc.sentToken = FREE_USER_TOKEN => ~calc.isAuthenticated)
    /\ [](hist.sentToken # FREE_USER_TOKEN)
    /\ [][/\ (calc'.requests > calc.requests /\ calc'.isAuthenticated
                => ~Falsy(token) /\ calc'.sentToken = token)
          /\ (calc.pc = "idle" /\ calc'.pc # "idle" /\ calc'.isAuthenticated
                  /\ Falsy(token)
                => calc'.requests = 0 /\ calc'.sentToken = Undefined)
          /\ (hist'.requests > hist.requests
                => ~Falsy(token) /\ hist'.sentToken = token)
          /\ (hist.pc = "idle" /\ hist'.pc # "idle" /\ Falsy(token)
                => hist'.requests = 0 /\ hist'.sentToken = Undefined)]_vars

C24_Witness ==
    /\ isAuthenticated
    /\ user = Obj([id |-> Str("u1")])
    /\ Falsy(token)
    /\ calc.pc = "returned"
    /\ calc.isAuthenticated
    /\ calc.requests = 0
    /\ calc.mockRuns = 1
    /\ hist.pc = "returned"
    /\ hist.readLog
    /\ hist.requests = 0

----------------------------------------------------------------------------
(* Claims about the Calculator page *)

\* the calls of calculate that handleSubmit has made and not yet resumed from
InFlight == {i \in CallIds : calls[i].pc # "idle"}

\* the step is a press of the Next / Calculate button
NextPressed ==
    \E i \in CallIds, rnd \in RandomSuffixes, q \in BOOLEAN :
        handleNextTab(i, rnd, q)

\* the step makes a call of calculate
CalculateCalled == \E i \in CallIds : calls[i].pc = "idle" /\ calls'[i].pc # "idle"

\* C25: whenever the Calculator page submits a calculation (hasValidInput
\* returned true), the result computed locally has a total above 0.
C25_SubmittedInputHasPositiveTotal ==
    \A i \in CallIds :
        /\ calls[i].pc = "returned"
        /\ calls[i].mockRuns = 1
        /\ hasValidInput(calls[i].formData)
        => Get(calls[i].result, "total").n > 0

\* C26: the Calculator page has at most one call of calculate in flight;
\* isSubmitting is true exactly from the start of a submission until
\* handleSubmit resumes from the call; Next / Calculate and Back do nothing
\* while it is true; it is false again after success and after failure; the
\* page goes to /results only from a call that returned.
C26_OneSubmissionAtATime ==
    /\ [](Cardinality(InFlight) <= 1)
    /\ [](calculator.isSubmitting <=> InFlight # {})
    /\ [][/\ (calculator.isSubmitting => ~NextPressed /\ ~handleBackTab)
          /\ (\A i \in CallIds :
                 calls[i].pc \in {"returned", "threw"} /\ calls'[i].pc = "idle"
                 => ~calculator'.isSubmitting)
          /\ (location' = "/results" /\ location # "/results"
                 => \E i \in CallIds :
                        calls[i].pc = "returned" /\ calls'[i].pc = "idle")]_vars

C26_Witness ==
    /\ location = "/calculator"
    /\ calculator.isSubmitting
    /\ calculator.toast = "Calculation Failed"
    /\ calls[1].pc = "threw"
    /\ calls[1].error = "QuotaExceededError"
    /\ calls[2].pc = "idle"

\* C27: Next moves the active tab one place on in the order transportation,
\* electricity, waste, food and never skips a tab; Back moves it one place
\* back and does nothing on transportation; calculate is called only by a
\* press of Next on the tab food while hasValidInput holds.
C27_WizardOrder ==
    [][/\ (NextPressed /\ calculator.activeTab # "food"
             => /\ TabIndex(calculator'.activeTab)
                       = TabIndex(calculator.activeTab) + 1
                /\ calls' = calls)
       /\ (NextPressed /\ calculator.activeTab = "food"
             => calculator'.activeTab = "food")
       /\ (handleBackTab
             => /\ calculator.activeTab # "transportation"
                /\ TabIndex(calculator'.activeTab)
                       = TabIndex(calculator.activeTab) - 1
                /\ calls' = calls)
       /\ (CalculateCalled
             => /\ NextPressed
                /\ calculator.activeTab = "food"
                /\ hasValidInput(calculator.calculatorData))
       /\ (NextPressed /\ ~hasValidInput(calculator.calculatorData)
             => calls' = calls)]_vars

C27_Witness ==
    /\ location = "/calculator"
    /\ calculator.activeTab = "food"
    /\ calculator.isSubmitting
    /\ calculator.calculatorData = InputCar
    /\ calculator.toast = "No data provided"
    /\ calls[1].pc = "awaiting"
    /\ calls[1].formData = InputCar

----------------------------------------------------------------------------
(* Claims about the Dashboard *)

\* the records of the settled fetch that have a result_data
RECURSIVE ValidRecords(_)
ValidRecords(response) ==
    IF response = <<>> THEN <<>>
    ELSE IF SkipCalculation(Head(response)) THEN ValidRecords(Tail(response))
    ELSE <<Head(response)>> \o ValidRecords(Tail(response))

\* what the fetch of the mounted Dashboard gave, once it is settled
FetchedRecords ==
    IF hist.pc = "settled" /\ hist.error = "" /\ IsArray(hist.result)
    THEN ValidRecords(hist.result.a)
    ELSE <<>>

\* the elements of a list
Elements(list) == {list[k] : k \in DOMAIN list}

\* C28: the Dashboard never shows an empty history and never mixes samples
\* with fetched records: the list shown is made of the fetched records when
\* at least one record with result_data was fetched, and is the four
\* samples otherwise, also after a failed fetch or an answer that is no
\* array; it has at least one entry, and the text 'No calculation history
\* available yet.' is never shown.
C28_HistoryIsFetchedOrSamples ==
    HistoryShown =>
        /\ Len(sortedCalculations) >= 1
        /\ ~NoHistoryShown
        /\ IF FetchedRecords # <<>>
           THEN /\ Len(sortedCalculations) = Len(FetchedRecords)
                /\ Elements(sortedCalculations) =
                       {FormatCalculation(r, rnd, clock) :
                           r \in Elements(FetchedRecords), rnd \in RandomSuffixes}
                /\ Elements(sortedCalculations) \cap Elements(SampleCalculations) = {}
           ELSE sortedCalculations = SampleCalculations

C28_Witness ==
    /\ HistoryShown
    /\ hist.outcome = NetworkError
    /\ hist.result = Placeholder
    /\ dashboard.calculations = <<>>
    /\ sortedCalculations = SampleCalculations
    /\ Len(ExistingCalculations(storage)) = 1

\* C29: for a signed-in user the loading state of the Dashboard ends: once
\* getUserCalculations is settled, with an array, with something else or
\* with a failure, isLoading becomes false and the list is an array, the
\* empty one after a failure or an answer that is no array. For a visitor
\* no fetch is started and the page goes to /login.
C29_LoadingEnds ==
    /\ (dashboard.mounted /\ hist.pc \in {"returned", "threw"})
           ~> (~dashboard.mounted \/ ~dashboard.isLoading)
    /\ [][/\ (/\ dashboard.mounted
              /\ hist.pc \in {"returned", "threw"}
              /\ hist'.pc = "settled"
              => /\ ~dashboard'.isLoading
                 /\ (hist.pc = "threw" \/ ~IsArray(hist.result)
                       => dashboard'.calculations = <<>>))
          /\ (openDashboard /\ ~isAuthenticated
              => /\ location' = "/login"
                 /\ hist'.pc = "idle"
                 /\ hist'.requests = 0)
          /\ (openDashboard /\ isAuthenticated
              => dashboard'.isLoading /\ hist'.pc # "idle")]_vars

C29_Witness ==
    /\ HistoryShown
    /\ hist.pc = "settled"
    /\ hist.error = "Something went wrong"
    /\ dashboard.toast = "Failed to load your calculation history"
    /\ dashboard.calculations = <<>>

----------------------------------------------------------------------------
(* Claims about the revisions of the Emission Model *)

=============================================================================
